---- MODULE Spec2Model ----
(***************************************************************************)
(* Model of the Tapbudd video pipeline: the canvas based generateVideo of   *)
(* server/videoGenerator (script -> frames -> concat manifest -> encoder), *)
(* the two routes that start a generation job, and MemStorage; and, behind  *)
(* the same routes, the generateVideo of server/videoGenerator.js that     *)
(* encodes with mergeToFile (SpecMerge).                                   *)
(***************************************************************************)
EXTENDS Integers, Sequences, FiniteSets, TLC

(***************************************************************************)
(* JavaScript values.  A value is a record tagged by its typeof/shape.     *)
(* Objects keep their properties as a sequence of key/value pairs, in      *)
(* insertion order, because JSON.stringify prints them in that order.      *)
(***************************************************************************)
Undef == [t |-> "undefined"]
Null == [t |-> "null"]
Str(s) == [t |-> "string", s |-> s]
Num(n) == [t |-> "number", n |-> n]
Bool(b) == [t |-> "boolean", b |-> b]
Arr(items) == [t |-> "array", items |-> items]
Obj(fields) == [t |-> "object", fields |-> fields]
P(k, v) == [k |-> k, v |-> v]

\* typeof v === 'object' && v !== null  (arrays are objects in JavaScript)
IsObjectLike(v) == v.t \in {"object", "array"}

\* ToBoolean(v): the truthiness test of `if (v)`, `v ? a : b`, `v || w`
Truthy(v) ==
  CASE v.t = "undefined" -> FALSE
    [] v.t = "null" -> FALSE
    [] v.t = "string" -> v.s # ""
    [] v.t = "number" -> v.n # 0
    [] v.t = "boolean" -> v.b
    [] OTHER -> TRUE

\* v[k]: property read; a key the object does not have reads as undefined
Get(v, k) ==
  IF v.t = "object" /\ \E i \in 1..Len(v.fields) : v.fields[i].k = k
  THEN v.fields[CHOOSE i \in 1..Len(v.fields) : v.fields[i].k = k].v
  ELSE Undef

RECURSIVE Rep(_, _)
\* String.prototype.repeat
Rep(c, n) ==
  IF n <= 0 THEN ""
  ELSE IF n = 1 THEN c
  ELSE LET half == Rep(c, n \div 2)
       IN half \o half \o (IF n % 2 = 1 THEN c ELSE "")

EscapeChar(c) ==
  CASE c = "\"" -> "\\\""
    [] c = "\\" -> "\\\\"
    [] c = "\n" -> "\\n"
    [] OTHER -> c

RECURSIVE EscapeRange(_, _, _)
\* the characters lo..hi of s with the JSON string escapes of ", \ and newline
EscapeRange(s, lo, hi) ==
  IF lo > hi THEN ""
  ELSE IF lo = hi THEN EscapeChar(SubSeq(s, lo, lo))
  ELSE LET mid == (lo + hi) \div 2
       IN EscapeRange(s, lo, mid) \o EscapeRange(s, mid + 1, hi)

Quote(s) == "\"" \o EscapeRange(s, 1, Len(s)) \o "\""

RECURSIVE Stringify(_, _, _)
RECURSIVE JoinItems(_, _, _, _)
RECURSIVE JoinProps(_, _, _, _, _)

\* the array elements from position i on, each on its own line when gap > 0;
\* undefined elements print as null
JoinItems(items, i, gap, ind) ==
  IF i > Len(items) THEN ""
  ELSE LET v == IF items[i].t = "undefined" THEN Null ELSE items[i]
           sep == IF i = 1 THEN "" ELSE (IF gap > 0 THEN ",\n" ELSE ",")
       IN sep \o ind \o Stringify(v, gap, ind) \o JoinItems(items, i + 1, gap, ind)

\* the properties from position i on; a property whose value is undefined is
\* left out.  first: no property has been printed yet
JoinProps(fields, i, gap, ind, first) ==
  IF i > Len(fields) THEN ""
  ELSE IF fields[i].v.t = "undefined" THEN JoinProps(fields, i + 1, gap, ind, first)
  ELSE LET sep == IF first THEN "" ELSE (IF gap > 0 THEN ",\n" ELSE ",")
           colon == IF gap > 0 THEN ": " ELSE ":"
       IN sep \o ind \o Quote(fields[i].k) \o colon
              \o Stringify(fields[i].v, gap, ind)
              \o JoinProps(fields, i + 1, gap, ind, FALSE)

\* JSON.stringify of a value other than undefined, at indentation ind;
\* gap = 2 for JSON.stringify(v, null, 2), gap = 0 for JSON.stringify(v)
Stringify(v, gap, ind) ==
  CASE v.t = "null" -> "null"
    [] v.t = "string" -> Quote(v.s)
    [] v.t = "number" -> ToString(v.n)
    [] v.t = "boolean" -> (IF v.b THEN "true" ELSE "false")
    [] v.t = "array" ->
         IF Len(v.items) = 0 THEN "[]"
         ELSE IF gap > 0
              THEN "[\n" \o JoinItems(v.items, 1, gap, ind \o Rep(" ", gap))
                         \o "\n" \o ind \o "]"
              ELSE "[" \o JoinItems(v.items, 1, gap, "") \o "]"
    [] v.t = "object" ->
         LET body == JoinProps(v.fields, 1, gap, IF gap > 0 THEN ind \o Rep(" ", gap) ELSE "", TRUE)
         IN IF body = "" THEN "{}"
            ELSE IF gap > 0 THEN "{\n" \o body \o "\n" \o ind \o "}"
                 ELSE "{" \o body \o "}"
    [] OTHER -> "null"

\* JSON.stringify(v, null, gap) as a JavaScript value: a string, or undefined
\* when v is undefined
JSONStringify(v, gap) ==
  IF v.t = "undefined" THEN Undef ELSE Str(Stringify(v, gap, ""))

\* String(v) for the scalars that reach it
ToStr(v) ==
  CASE v.t = "number" -> ToString(v.n)
    [] v.t = "boolean" -> (IF v.b THEN "true" ELSE "false")
    [] v.t = "string" -> v.s
    [] v.t = "null" -> "null"
    [] OTHER -> "undefined"

\* safeGetText that takes the text or script field whenever the object has
\* it, and stringifies null and undefined as it does the other scalars
safeGetText_FieldPresent(obj) ==
  IF obj.t = "string" THEN obj.s
  ELSE IF IsObjectLike(obj)
       THEN IF Get(obj, "text") # Undef
            THEN (IF Get(obj, "text").t = "string" THEN Get(obj, "text").s
                  ELSE JSONStringify(Get(obj, "text"), 0).s)
            ELSE IF Get(obj, "script") # Undef
            THEN (IF Get(obj, "script").t = "string" THEN Get(obj, "script").s
                  ELSE JSONStringify(Get(obj, "script"), 0).s)
            ELSE JSONStringify(obj, 2).s
  ELSE ToStr(obj)

\* safeGetText: the text of a text-like value, as a string
safeGetText(obj) ==
  IF obj.t = "string" THEN obj.s
  ELSE IF obj.t \in {"null", "undefined"} THEN ""
  ELSE IF IsObjectLike(obj)
       THEN IF Truthy(Get(obj, "text"))
            THEN (IF Get(obj, "text").t = "string" THEN Get(obj, "text").s
                  ELSE JSONStringify(Get(obj, "text"), 0).s)
            ELSE IF Truthy(Get(obj, "script"))
            THEN (IF Get(obj, "script").t = "string" THEN Get(obj, "script").s
                  ELSE JSONStringify(Get(obj, "script"), 0).s)
            ELSE JSONStringify(obj, 2).s
  ELSE ToStr(obj)

(***************************************************************************)
(* generateVideo, part 1: from scriptContent to the frame descriptions     *)
(***************************************************************************)
baseDuration == 7
maxExtraDuration == 5
sectionCharsPerSecond == 150
contentCharsPerSecond == 200
openingDuration == 6
conclusionDuration == 6
interactiveDuration == 5
simpleDuration == 5
paragraphDuration == 5
objectDumpDuration == 10
fallbackDuration == 10

Min(a, b) == IF a <= b THEN a ELSE b

\* a frame description; index is the position in mainContent of the section
\* a section frame was made from, and NoIndex on every other frame; frames
\* pushed without a type are rendered with type 'standard'
NoIndex == 0 - 1
Frame(type, text, duration, index) ==
  [type |-> type, text |-> text, duration |-> duration, index |-> index]

\* extraDuration without the cap of 5 seconds
extraDuration_NoCap(contentLength) == contentLength \div sectionCharsPerSecond

\* Math.min(5, Math.floor(contentLength / 150)) of a section
extraDuration(contentLength) ==
  Min(maxExtraDuration, contentLength \div sectionCharsPerSecond)

\* contentExtraDuration with the divisor of the section branch
contentExtraDuration_Per150(contentLength) ==
  Min(maxExtraDuration, contentLength \div sectionCharsPerSecond)

\* Math.min(5, Math.floor(contentLength / 200)) of a non-array mainContent
contentExtraDuration(contentLength) ==
  Min(maxExtraDuration, contentLength \div contentCharsPerSecond)

sectionTitleOf(section, index) ==
  IF Truthy(Get(section, "sectionTitle"))
  THEN safeGetText(Get(section, "sectionTitle"))
  ELSE "Section " \o ToString(index + 1)

sectionContentOf(section) ==
  IF Truthy(Get(section, "script"))
  THEN safeGetText(Get(section, "script"))
  ELSE safeGetText(section)

\* sectionFrame with the heading joined to the body by a colon
sectionFrame_ColonHeading(section, index) ==
  Frame("section",
        sectionTitleOf(section, index) \o ": " \o sectionContentOf(section),
        baseDuration + extraDuration(Len(sectionContentOf(section))),
        index)

\* the section frame pushed for an object element of mainContent
sectionFrame(section, index) ==
  Frame("section",
        "<strong>" \o sectionTitleOf(section, index) \o "</strong><br/><br/>"
                   \o sectionContentOf(section),
        baseDuration + extraDuration(Len(sectionContentOf(section))),
        index)

\* interactiveFrame timed by the length of its text, as a section frame is
interactiveFrame_TimedByLength(section) ==
  Frame("interactive",
        "<strong>Interactive Element:</strong><br/><br/>"
           \o safeGetText(Get(section, "interactiveElement")),
        interactiveDuration
          + extraDuration(Len(safeGetText(Get(section, "interactiveElement")))),
        NoIndex)

\* the interactive frame pushed after the section frame
interactiveFrame(section) ==
  Frame("interactive",
        "<strong>Interactive Element:</strong><br/><br/>"
           \o safeGetText(Get(section, "interactiveElement")),
        interactiveDuration, NoIndex)

\* the frame pushed for an element of mainContent that is not an object
simpleFrame(section) ==
  Frame("simple", safeGetText(section), simpleDuration, NoIndex)

\* the frame pushed for a mainContent that is not an array
contentFrame(mainContent) ==
  Frame("content", safeGetText(mainContent),
        baseDuration + contentExtraDuration(Len(safeGetText(mainContent))),
        NoIndex)

\* sectionFrames that forgets the interactive frame
sectionFrames_DropInteractive(section, index) ==
  IF Truthy(section) /\ IsObjectLike(section)
  THEN <<sectionFrame(section, index)>>
  ELSE <<simpleFrame(section)>>

\* sectionFrames that pushes the interactive frame before its section frame
sectionFrames_InteractiveFirst(section, index) ==
  IF Truthy(section) /\ IsObjectLike(section)
  THEN (IF Truthy(Get(section, "interactiveElement"))
        THEN <<interactiveFrame(section)>> ELSE <<>>)
       \o <<sectionFrame(section, index)>>
  ELSE <<simpleFrame(section)>>

\* sectionFrames that makes a section frame only of an object with a
\* sectionTitle or a script
sectionFrames_OnlyWithFields(section, index) ==
  IF /\ Truthy(section) /\ IsObjectLike(section)
     /\ (Truthy(Get(section, "sectionTitle")) \/ Truthy(Get(section, "script")))
  THEN <<sectionFrame(section, index)>>
         \o (IF Truthy(Get(section, "interactiveElement"))
             THEN <<interactiveFrame(section)>> ELSE <<>>)
  ELSE <<simpleFrame(section)>>

\* the forEach callback: the frames pushed for mainContent[index] (0-based)
sectionFrames(section, index) ==
  IF Truthy(section) /\ IsObjectLike(section)
  THEN <<sectionFrame(section, index)>>
         \o (IF Truthy(Get(section, "interactiveElement"))
             THEN <<interactiveFrame(section)>> ELSE <<>>)
  ELSE <<simpleFrame(section)>>

RECURSIVE mainContentFrames(_, _)
\* scriptContent.mainContent.forEach(...), from 0-based position index on
mainContentFrames(items, index) ==
  IF index >= Len(items) THEN <<>>
  ELSE sectionFrames(items[index + 1], index) \o mainContentFrames(items, index + 1)

\* the frames of the opening / mainContent / conclusion structure
structuredFrames(scriptContent) ==
  (IF Truthy(Get(scriptContent, "opening"))
   THEN <<Frame("opening", safeGetText(Get(scriptContent, "opening")),
                openingDuration, NoIndex)>>
   ELSE <<>>)
  \o (IF Truthy(Get(scriptContent, "mainContent"))
      THEN (IF Get(scriptContent, "mainContent").t = "array"
            THEN mainContentFrames(Get(scriptContent, "mainContent").items, 0)
            ELSE <<contentFrame(Get(scriptContent, "mainContent"))>>)
      ELSE <<>>)
  \o (IF Truthy(Get(scriptContent, "conclusion"))
      THEN <<Frame("conclusion", safeGetText(Get(scriptContent, "conclusion")),
                   conclusionDuration, NoIndex)>>
      ELSE <<>>)

IsSeparatorAt(s, i, sep) ==
  i + Len(sep) - 1 <= Len(s) /\ SubSeq(s, i, i + Len(sep) - 1) = sep

\* SeparatorLenAt that knows the blank line only
SeparatorLenAt_BlankLineOnly(s, i) ==
  IF IsSeparatorAt(s, i, "\n\n") THEN 2 ELSE 0

\* the length of the separator that starts at position i of s, 0 when none
SeparatorLenAt(s, i) ==
  IF IsSeparatorAt(s, i, "\n\n") THEN 2
  ELSE IF IsSeparatorAt(s, i, "\\\n\\\n") THEN 4
  ELSE 0

RECURSIVE SplitFrom(_, _)
\* scriptText.split(/\n\n|\\\n\\\n/): the pieces of s from position start on,
\* cut at the leftmost separator each time
SplitFrom(s, start) ==
  LET seps == {i \in start..Len(s) : SeparatorLenAt(s, i) > 0}
  IN IF seps = {} THEN <<SubSeq(s, start, Len(s))>>
     ELSE LET i == CHOOSE p \in seps : \A q \in seps : p <= q
          IN <<SubSeq(s, start, i - 1)>> \o SplitFrom(s, i + SeparatorLenAt(s, i))

splitParagraphs(s) == SplitFrom(s, 1)

WhiteSpace == {" ", "\n", "\t", "\r"}

\* paragraph.trim() is the empty string
IsBlank(s) == \A i \in 1..Len(s) : SubSeq(s, i, i) \in WhiteSpace

RECURSIVE paragraphFrames(_, _)
\* the loop over the paragraphs, from position i on
paragraphFrames(paragraphs, i) ==
  IF i > Len(paragraphs) THEN <<>>
  ELSE (IF IsBlank(paragraphs[i]) THEN <<>>
        ELSE <<Frame("standard", paragraphs[i], paragraphDuration, NoIndex)>>)
       \o paragraphFrames(paragraphs, i + 1)

\* the text the paragraph branch splits: the script itself when it is a
\* string, else JSON.stringify(scriptContent, null, 2), which is undefined
\* (not a string) for undefined
scriptTextOf(scriptContent) ==
  IF scriptContent.t = "string" THEN scriptContent
  ELSE JSONStringify(scriptContent, 2)

IsStructured(scriptContent) ==
  \/ Truthy(Get(scriptContent, "opening"))
  \/ Truthy(Get(scriptContent, "mainContent"))
  \/ Truthy(Get(scriptContent, "conclusion"))

\* objectDumpFrame with the compact serialization
objectDumpFrame_Compact(scriptContent) ==
  Frame("standard", JSONStringify(scriptContent, 0).s, objectDumpDuration, NoIndex)

\* the frame pushed for an object without opening, mainContent or
\* conclusion: JSON.stringify(scriptContent, null, 2)
objectDumpFrame(scriptContent) ==
  Frame("standard", JSONStringify(scriptContent, 2).s, objectDumpDuration, NoIndex)

\* the frames of the branch that matches the shape of scriptContent, before
\* the "at least one frame" step; threw: the derivation raised a TypeError
\* (scriptText.split on a scriptText that is not a string)
shapeFrames(scriptContent) ==
  IF Truthy(scriptContent) /\ IsObjectLike(scriptContent)
  THEN IF IsStructured(scriptContent)
       THEN [threw |-> FALSE, frames |-> structuredFrames(scriptContent)]
       ELSE [threw |-> FALSE, frames |-> <<objectDumpFrame(scriptContent)>>]
  ELSE IF scriptTextOf(scriptContent).t # "string"
       THEN [threw |-> TRUE, frames |-> <<>>]
       ELSE [threw |-> FALSE,
             frames |-> paragraphFrames(splitParagraphs(scriptTextOf(scriptContent).s), 1)]

fallbackFrame(title) ==
  Frame("standard", "No script content available for: " \o title,
        fallbackDuration, NoIndex)

\* ensureFrames without the fallback
ensureFrames_NoFallback(frames, title) == frames

\* if (frames.length === 0) frames.push(fallback)
ensureFrames(frames, title) ==
  IF Len(frames) = 0 THEN <<fallbackFrame(title)>> ELSE frames

\* lines 619-740 as a whole: the frame descriptions, or threw
deriveFrames(scriptContent, title) ==
  IF shapeFrames(scriptContent).threw
  THEN [threw |-> TRUE, frames |-> <<>>]
  ELSE [threw |-> FALSE,
        frames |-> ensureFrames(shapeFrames(scriptContent).frames, title)]

(***************************************************************************)
(* Paths and names                                                         *)
(***************************************************************************)
TEMP_DIR == "temp"
OUTPUT_DIR == "public/videos"
PUBLIC_DIR == "public"

\* frameNum.toString().padStart(5, '0')
padStart5(n) == Rep("0", 5 - Len(ToString(n))) \o ToString(n)

\* createFrame: path.join(TEMP_DIR, `frame_${padded}.png`)
imagePathOf(frameNum) == TEMP_DIR \o "/frame_" \o padStart5(frameNum) \o ".png"

\* generateVideo: path.join(TEMP_DIR, 'concat.txt')
concatFilePath == TEMP_DIR \o "/concat.txt"

LowerCase == "abcdefghijklmnopqrstuvwxyz"
UpperCase == "ABCDEFGHIJKLMNOPQRSTUVWXYZ"
Digits == "0123456789"

\* one character of title.replace(/[^a-z0-9]/gi, '_').toLowerCase()
sanitizeChar(c) ==
  IF \E k \in 1..26 : SubSeq(UpperCase, k, k) = c
  THEN LET k == CHOOSE k \in 1..26 : SubSeq(UpperCase, k, k) = c
       IN SubSeq(LowerCase, k, k)
  ELSE IF (\E k \in 1..26 : SubSeq(LowerCase, k, k) = c)
          \/ (\E k \in 1..10 : SubSeq(Digits, k, k) = c)
       THEN c
       ELSE "_"

RECURSIVE sanitizeRange(_, _, _)
sanitizeRange(s, lo, hi) ==
  IF lo > hi THEN ""
  ELSE IF lo = hi THEN sanitizeChar(SubSeq(s, lo, lo))
  ELSE LET mid == (lo + hi) \div 2
       IN sanitizeRange(s, lo, mid) \o sanitizeRange(s, mid + 1, hi)

\* `${subject}_${sanitized title}_${timestamp}.mp4` under OUTPUT_DIR
outputPathOf(subject, title, timestamp) ==
  OUTPUT_DIR \o "/" \o subject \o "_" \o sanitizeRange(title, 1, Len(title))
             \o "_" \o ToString(timestamp) \o ".mp4"

\* getVideoUrl: '/' + the path relative to the public directory
getVideoUrl(videoPath) ==
  "/" \o SubSeq(videoPath, Len(PUBLIC_DIR) + 2, Len(videoPath))

(***************************************************************************)
(* Bounds and input sets                                                   *)
(***************************************************************************)
MaxJobs == 2
MaxContents == 1
MaxSections == 2

Jobs == 1..MaxJobs
Ids == 1..MaxContents

Titles == {"X", "Demo"}
Subjects == {"coding"}
\* the values Date.now() returns when a job starts
Timestamps == {1700000000}

\* the titles of the records the server stores in Spec
ServerTitles == {"Demo"}

SeqsUpTo(S, n) == UNION {[1..k -> S] : k \in 0..n}

\* bodies of a given length made of one repeated character
Body(n) == Str(Rep("b", n))

\* script payloads -------------------------------------------------------
Scripts == {Undef, Body(149), Body(150), Body(449), Body(900)}
InteractiveElements == {Str(""), Obj(<<P("text", Str("Try it"))>>)}

Section(sectionTitle, script, interactiveElement) ==
  Obj(<<P("sectionTitle", sectionTitle), P("script", script),
        P("interactiveElement", interactiveElement)>>)

\* object elements of mainContent (a property whose value is undefined is a
\* property the object does not have)
SectionObjects ==
  {Section(Undef, s, Undef) : s \in Scripts}
  \cup {Section(Str("A"), Str("Body"), e) : e \in {Undef} \cup InteractiveElements}

\* elements of mainContent that are not objects
ScalarElements == {Str("Plain"), Null, Num(7)}

MainContentArrays == {Arr(items) : items \in SeqsUpTo(SectionObjects \cup ScalarElements, MaxSections)}

\* a mainContent that is one text-like value
MainContentTexts ==
  {Str("Main"), Body(199), Body(200), Body(1200), Num(42), Bool(TRUE),
   Obj(<<P("text", Str("Main text"))>>),
   Obj(<<P("text", Str("T")), P("script", Str("S"))>>),
   Obj(<<P("text", Str("")), P("script", Str("Spoken"))>>),
   Obj(<<P("text", Num(5))>>),
   Obj(<<P("script", Arr(<<Str("a"), Num(1)>>))>>),
   Obj(<<P("text", Str(""))>>),
   Obj(<<P("note", Str("n"))>>)}

Openings == {Undef, Str(""), Str("Hi")}
Conclusions == {Undef, Str("Bye")}

StructuredPayloads ==
  {Obj(<<P("opening", o), P("mainContent", m), P("conclusion", c)>>) :
     o \in Openings, m \in MainContentArrays \cup MainContentTexts \cup {Undef},
     c \in Conclusions}

FreeformPayloads ==
  {Undef, Null, Str(""), Str(" \n\t "), Str("Para one.\n\nPara two."),
   Str("One\n\n \n\nTwo\\\n\\\nThree"), Num(0), Num(5), Bool(FALSE), Bool(TRUE),
   Arr(<<>>), Arr(<<Str("a"), Num(1)>>), Obj(<<>>),
   Obj(<<P("foo", Obj(<<P("bar", Arr(<<Obj(<<P("baz", Null)>>)>>))>>))>>)}

\* a structured payload whose opening, interactive element and conclusion
\* are long texts
LongTextPayloads ==
  {Obj(<<P("opening", Body(700)),
         P("mainContent", Arr(<<Section(Str("A"), Str("Body"), Body(400))>>)),
         P("conclusion", Body(1000))>>)}

\* the payloads generateVideo is applied to in SpecGen
Payloads == StructuredPayloads \cup FreeformPayloads \cup LongTextPayloads

\* the scripts of the drafts created by POST /contents in Spec
DraftPayloads == {Str("Para one.\n\nPara two.")}

\* the scripts the AI returns to POST /generate-content in Spec
ServerPayloads == {Undef, Obj(<<P("opening", Str("Hi")), P("conclusion", Str("Bye"))>>)}

(***************************************************************************)
(* State                                                                   *)
(***************************************************************************)
VARIABLES
  contents,          \* MemStorage.contents: id -> record
  currentContentId,  \* MemStorage.currentContentId
  job,               \* the generation jobs: one per request that starts one
  files,             \* the scratch directory TEMP_DIR: path -> what was written
  cur                \* the job whose code holds the JavaScript thread, 0: none

vars == <<contents, currentContentId, job, files, cur>>

NoSnapshot == [id |-> 0, title |-> "", subject |-> "", scriptContent |-> Undef]

\* the body-text drawing of createFrame: the words, the loop index n, the
\* pending line, the baseline textY and the fillText calls made so far
NoCanvas ==
  [pc |-> "none", words |-> <<>>, n |-> 0, line |-> "", textY |-> 0, draws |-> <<>>]

IdleJob ==
  [pc |-> "idle", route |-> "none", content |-> NoSnapshot, outputPath |-> "",
   frames |-> <<>>, frameFiles |-> <<>>, error |-> "", result |-> "",
   response |-> 0, updates |-> <<>>, deleted |-> {},
   calls |-> <<>>, failedAt |-> "", manifest |-> FALSE, encoderRuns |-> 0,
   attempted |-> <<>>, canvas |-> NoCanvas]

\* what generateVideo reads of the content it is given
Snapshot(content) ==
  [id |-> content.id, title |-> content.title, subject |-> content.subject,
   scriptContent |-> content.scriptContent]

(***************************************************************************)
(* MemStorage                                                              *)
(***************************************************************************)
\* { ...insertContent, id }
newContentOf(insertContent, id) ==
  [id |-> id, title |-> insertContent.title, subject |-> insertContent.subject,
   scriptContent |-> insertContent.scriptContent, status |-> insertContent.status,
   videoUrl |-> Undef, errorMessage |-> Undef]

\* MemStorage.createContent: the store after the call
createContent(store, nextId, insertContent) ==
  [i \in DOMAIN store \cup {nextId} |->
     IF i = nextId THEN newContentOf(insertContent, nextId) ELSE store[i]]

\* { ...content, ...updateContent }
merged(content, updateContent) ==
  [f \in DOMAIN content |->
     IF f \in DOMAIN updateContent THEN updateContent[f] ELSE content[f]]

\* updateContent that sets the record under id whether or not one is stored
updateContent_Upsert(store, id, body) ==
  [i \in DOMAIN store \cup {id} |->
     IF i # id THEN store[i]
     ELSE IF id \in DOMAIN store THEN merged(store[id], body)
     ELSE merged([id |-> id, title |-> "", subject |-> "", scriptContent |-> Undef,
                  status |-> "", videoUrl |-> Undef, errorMessage |-> Undef], body)]

\* MemStorage.updateContent: the store after the call; an id that is not
\* stored leaves the store as it is
updateContent(store, id, body) ==
  IF id \notin DOMAIN store THEN store
  ELSE [store EXCEPT ![id] = merged(store[id], body)]

\* MemStorage.deleteContent
deleteContent(store, id) == [i \in DOMAIN store \ {id} |-> store[i]]

(***************************************************************************)
(* The scratch directory                                                   *)
(***************************************************************************)
\* a frame image written by createFrame of job j
FrameFile(j, frameNum) ==
  [job |-> j, kind |-> "frame", frameNum |-> frameNum, entries |-> <<>>]

\* the concat manifest written by job j
ConcatFile(j, entries) ==
  [job |-> j, kind |-> "concat", frameNum |-> NoIndex, entries |-> entries]

\* fs.writeFileSync(path, data): creates the file or replaces its content
writeFile(fs, path, data) ==
  [q \in DOMAIN fs \cup {path} |-> IF q = path THEN data ELSE fs[q]]

\* fs.unlinkSync on each of the paths, each in its own try/catch: the paths
\* that exist are removed, the others raise ENOENT, which is logged
unlinkAll(fs, paths) == [q \in DOMAIN fs \ paths |-> fs[q]]

\* one manifest entry: file '<path>' followed by `duration 1`, or, for the
\* trailing reference, by nothing (NoDuration)
NoDuration == 0
unitDuration == 1
Entry(path, duration) == [file |-> path, duration |-> duration]

RECURSIVE repeatEntry(_, _)
\* for (let i = 0; i < frame.duration; i++) concatContent += entry
repeatEntry(path, times) ==
  IF times <= 0 THEN <<>>
  ELSE <<Entry(path, unitDuration)>> \o repeatEntry(path, times - 1)

RECURSIVE frameEntries(_, _)
\* frameFiles.forEach(frame => ...), from position i on
frameEntries(frameFiles, i) ==
  IF i > Len(frameFiles) THEN <<>>
  ELSE repeatEntry(frameFiles[i].path, frameFiles[i].duration)
       \o frameEntries(frameFiles, i + 1)

\* concatContent without the last file reference
concatContent_NoTrailing(frameFiles) == frameEntries(frameFiles, 1)

\* concatContent: the entries of every frame, then the last file reference
concatContent(frameFiles) ==
  frameEntries(frameFiles, 1)
  \o (IF Len(frameFiles) > 0
      THEN <<Entry(frameFiles[Len(frameFiles)].path, NoDuration)>>
      ELSE <<>>)

(***************************************************************************)
(* Requests                                                                *)
(***************************************************************************)
\* requests take the free job slots in order
NextJob(j) == job[j].pc = "idle" /\ \A k \in Jobs : k < j => job[k].pc # "idle"

\* POST /contents: a draft record
PostContents(title, subject, scriptContent) ==
  /\ cur = 0
  /\ currentContentId <= MaxContents
  /\ contents' = createContent(contents, currentContentId,
                   [title |-> title, subject |-> subject,
                    scriptContent |-> scriptContent, status |-> "draft"])
  /\ currentContentId' = currentContentId + 1
  /\ UNCHANGED <<job, files, cur>>

\* the request bodies of PATCH /contents/:id
PatchBodies == {[status |-> "draft", scriptContent |-> Str("Edited")]}

\* PATCH /contents/:id; 404 and nothing changes when the id is not stored
PatchContent(id, body) ==
  /\ cur = 0
  /\ contents' = updateContent(contents, id, body)
  /\ UNCHANGED <<currentContentId, job, files, cur>>

\* DELETE /contents/:id; 404 and nothing changes when the id is not stored
DeleteContent(id) ==
  /\ cur = 0
  /\ contents' = deleteContent(contents, id)
  /\ UNCHANGED <<currentContentId, job, files, cur>>

\* POST /generate-content, from the arrival of the AI result: the record is
\* created with status processing, the response is sent, and generateVideo is
\* called with the new record
GenerateContent(j, title, subject, scriptContent) ==
  /\ cur = 0
  /\ NextJob(j)
  /\ currentContentId <= MaxContents
  /\ contents' = createContent(contents, currentContentId,
                   [title |-> title, subject |-> subject,
                    scriptContent |-> scriptContent, status |-> "processing"])
  /\ currentContentId' = currentContentId + 1
  /\ job' = [job EXCEPT ![j] =
               [IdleJob EXCEPT !.pc = "started", !.route = "generate-content",
                               !.content = Snapshot(contents'[currentContentId]),
                               !.response = 201]]
  /\ cur' = j
  /\ UNCHANGED files

\* the content an earlier job on record id was given, when there is one; else
\* the stored record
earlierContent(id) ==
  IF \E k \in Jobs : job[k].pc = "done" /\ job[k].content.id = id
  THEN job[CHOOSE k \in Jobs : job[k].pc = "done" /\ job[k].content.id = id].content
  ELSE Snapshot(contents[id])

\* GenerateVideoRoute that resumes from what an earlier job on the record
\* was given instead of reading the stored record
GenerateVideoRoute_FromEarlierJob(j, id) ==
  /\ cur = 0
  /\ NextJob(j)
  /\ IF id \in DOMAIN contents
     THEN /\ contents' = updateContent(contents, id, [status |-> "processing"])
          /\ job' = [job EXCEPT ![j] =
                       [IdleJob EXCEPT !.pc = "started", !.route = "generate-video",
                                       !.content = earlierContent(id),
                                       !.response = 200]]
          /\ cur' = j
     ELSE /\ job' = [job EXCEPT ![j] =
                       [IdleJob EXCEPT !.pc = "done", !.route = "generate-video",
                                       !.response = 404]]
          /\ UNCHANGED <<contents, cur>>
  /\ UNCHANGED <<currentContentId, files>>

\* POST /contents/:id/generate-video: 404 when the id is not stored; else the
\* status is set to processing, the response is sent, and generateVideo is
\* called with the record read at the start of the handler
GenerateVideoRoute(j, id) ==
  /\ cur = 0
  /\ NextJob(j)
  /\ IF id \in DOMAIN contents
     THEN /\ contents' = updateContent(contents, id, [status |-> "processing"])
          /\ job' = [job EXCEPT ![j] =
                       [IdleJob EXCEPT !.pc = "started", !.route = "generate-video",
                                       !.content = Snapshot(contents[id]),
                                       !.response = 200]]
          /\ cur' = j
     ELSE /\ job' = [job EXCEPT ![j] =
                       [IdleJob EXCEPT !.pc = "done", !.route = "generate-video",
                                       !.response = 404]]
          /\ UNCHANGED <<contents, cur>>
  /\ UNCHANGED <<currentContentId, files>>

(***************************************************************************)
(* generateVideo, step by step.  The code of a job runs on the JavaScript   *)
(* thread from the request (or the encoder event) up to the next wait for  *)
(* the encoder; cur is the job that runs.                                  *)
(***************************************************************************)
splitErrorMessage == "Cannot read properties of undefined (reading 'split')"
\* the messages of the errors createFrame throws and of the errors the encoder
\* reports; an error without a message takes the route's default message
RenderErrors == {"Canvas allocation failed"}
EncoderErrors == {""}

\* lines 602-746: output path and frame descriptions; timestamp is Date.now()
StartJob(j, timestamp) ==
  /\ cur = j
  /\ job[j].pc = "started"
  /\ LET c == job[j].content
         d == deriveFrames(c.scriptContent, c.title)
     IN job' = [job EXCEPT
                  ![j].outputPath = outputPathOf(c.subject, c.title, timestamp),
                  ![j].frames = d.frames,
                  ![j].error = IF d.threw THEN splitErrorMessage ELSE "",
                  ![j].failedAt = IF d.threw THEN "frames" ELSE "",
                  ![j].pc = IF d.threw THEN "rejected" ELSE "rendering"]
  /\ UNCHANGED <<contents, currentContentId, files, cur>>

\* the call createFrame(frame.text, i, title, subject, {type, animate,
\* totalFrames, frameData}) of lines 755-766, with totalFrames = frames.length
\* passed as every call's total
createFrameCall_RunningTotal(frames, i) ==
  [text |-> frames[i + 1].text, frameNum |-> i, type |-> frames[i + 1].type,
   totalFrames |-> i + 1]

\* the call createFrame(frame.text, i, title, subject, {type, animate,
\* totalFrames, frameData}) of lines 755-766, with totalFrames = frames.length
createFrameCall(frames, i) ==
  [text |-> frames[i + 1].text, frameNum |-> i, type |-> frames[i + 1].type,
   totalFrames |-> Len(frames)]

\* one round of the loop of lines 750-769: createFrame writes the image of
\* frames[i] and its path and duration are pushed to frameFiles
RenderFrame(j) ==
  /\ cur = j
  /\ job[j].pc = "rendering"
  /\ Len(job[j].frameFiles) < Len(job[j].frames)
  /\ LET i == Len(job[j].frameFiles)
     IN /\ files' = writeFile(files, imagePathOf(i), FrameFile(j, i))
        /\ job' = [job EXCEPT
                     ![j].calls = Append(@, createFrameCall(job[j].frames, i)),
                     ![j].frameFiles =
                        Append(@, [path |-> imagePathOf(i),
                                   duration |-> job[j].frames[i + 1].duration])]
  /\ UNCHANGED <<contents, currentContentId, cur>>

\* RenderFail that logs the error, skips the frame and goes on with the loop
RenderFail_SkipFrame(j, message) ==
  /\ cur = j
  /\ job[j].pc = "rendering"
  /\ Len(job[j].frameFiles) < Len(job[j].frames)
  /\ LET i == Len(job[j].frameFiles)
     IN job' = [job EXCEPT
                  ![j].calls = Append(@, createFrameCall(job[j].frames, i)),
                  ![j].frameFiles =
                     Append(@, [path |-> imagePathOf(i),
                                duration |-> job[j].frames[i + 1].duration]),
                  ![j].error = message, ![j].failedAt = "render"]
  /\ UNCHANGED <<contents, currentContentId, files, cur>>

\* createFrame throws in round i of the loop: generateVideo rejects with the
\* error
RenderFail(j, message) ==
  /\ cur = j
  /\ job[j].pc = "rendering"
  /\ Len(job[j].frameFiles) < Len(job[j].frames)
  /\ job' = [job EXCEPT
               ![j].calls = Append(@, createFrameCall(job[j].frames, Len(job[j].frameFiles))),
               ![j].pc = "rejected", ![j].error = message, ![j].failedAt = "render"]
  /\ UNCHANGED <<contents, currentContentId, files, cur>>

\* lines 774-841: the manifest is written and the encoder is started; the
\* job then waits for the encoder's end or error event
Combine(j) ==
  /\ cur = j
  /\ job[j].pc = "rendering"
  /\ Len(job[j].frameFiles) = Len(job[j].frames)
  /\ files' = writeFile(files, concatFilePath,
                        ConcatFile(j, concatContent(job[j].frameFiles)))
  /\ job' = [job EXCEPT ![j].pc = "encoding", ![j].manifest = TRUE,
                        ![j].encoderRuns = @ + 1]
  /\ cur' = 0
  /\ UNCHANGED <<contents, currentContentId>>

\* the scratch files a job names: its frame images and the manifest
scratchPaths(j) ==
  {job[j].frameFiles[i].path : i \in 1..Len(job[j].frameFiles)} \cup {concatFilePath}

\* the paths the 'end' handler unlinks, in its order: the frame images, then
\* the manifest
cleanupPaths(frameFiles) ==
  [i \in 1..Len(frameFiles) |-> frameFiles[i].path] \o <<concatFilePath>>

RECURSIVE cleanup(_, _, _)
\* the unlinks of the 'end' handler from position i on, each in its own
\* try/catch: fs.unlinkSync of a path that is not there raises ENOENT, which
\* is logged, and the next unlink runs
cleanup(fs, paths, i) ==
  IF i > Len(paths) THEN [fs |-> fs, attempted |-> <<>>, failed |-> {}, threw |-> FALSE]
  ELSE LET rest == cleanup(unlinkAll(fs, {paths[i]}), paths, i + 1)
       IN [rest EXCEPT !.attempted = <<paths[i]>> \o @,
                       !.failed = (IF paths[i] \in DOMAIN fs THEN {} ELSE {paths[i]}) \cup @]

\* EncoderEnd whose handler is left by the first unlink that fails, before
\* resolve is reached
EncoderEnd_LeftByFailedUnlink(j) ==
  /\ cur = 0
  /\ job[j].pc = "encoding"
  /\ LET c == cleanup(files, cleanupPaths(job[j].frameFiles), 1)
     IN /\ files' = c.fs
        /\ job' = [job EXCEPT
                     ![j].pc = IF c.failed # {} THEN "unsettled" ELSE "resolved",
                     ![j].result = IF c.failed # {} THEN "" ELSE job[j].outputPath,
                     ![j].attempted = c.attempted,
                     ![j].deleted = DOMAIN files \ DOMAIN c.fs]
        /\ cur' = IF c.failed # {} THEN 0 ELSE j
  /\ UNCHANGED <<contents, currentContentId>>

\* the encoder's 'end' event: the scratch files are unlinked and the promise
\* resolves with the output path; an exception that left the handler would
\* leave the promise unsettled
EncoderEnd(j) ==
  /\ cur = 0
  /\ job[j].pc = "encoding"
  /\ LET c == cleanup(files, cleanupPaths(job[j].frameFiles), 1)
     IN /\ files' = c.fs
        /\ job' = [job EXCEPT
                     ![j].pc = IF c.threw THEN "unsettled" ELSE "resolved",
                     ![j].result = IF c.threw THEN "" ELSE job[j].outputPath,
                     ![j].attempted = c.attempted,
                     ![j].deleted = DOMAIN files \ DOMAIN c.fs]
        /\ cur' = IF c.threw THEN 0 ELSE j
  /\ UNCHANGED <<contents, currentContentId>>

\* the encoder's 'error' event: the promise rejects, nothing is unlinked
EncoderError(j, message) ==
  /\ cur = 0
  /\ job[j].pc = "encoding"
  /\ job' = [job EXCEPT ![j].pc = "rejected", ![j].error = message,
                        ![j].failedAt = "encoder"]
  /\ cur' = j
  /\ UNCHANGED <<contents, currentContentId, files>>

(***************************************************************************)
(* The routes' continuation after generateVideo settles                    *)
(***************************************************************************)
unknownErrorMessage == "Unknown error during video generation"

\* the update written when generateVideo resolved with videoPath
completedUpdate(videoPath) ==
  [status |-> "completed", videoUrl |-> Str(getVideoUrl(videoPath))]

\* errorUpdate without the default message
errorUpdate_NoDefault(message) == [status |-> "error", errorMessage |-> Str(message)]

\* the update written when generateVideo rejected with an error whose
\* message is message
errorUpdate(message) ==
  [status |-> "error",
   errorMessage |-> Str(IF message # "" THEN message ELSE unknownErrorMessage)]

\* try branch: storage.updateContent(id, {status: "completed", videoUrl})
Complete(j) ==
  /\ cur = j
  /\ job[j].pc = "resolved"
  /\ job[j].route # "none"
  /\ contents' = updateContent(contents, job[j].content.id, completedUpdate(job[j].result))
  /\ job' = [job EXCEPT ![j].pc = "done",
                        ![j].updates = Append(@, completedUpdate(job[j].result))]
  /\ cur' = 0
  /\ UNCHANGED <<currentContentId, files>>

\* Fail that also answers the request with a 500
Fail_Responds500(j) ==
  /\ cur = j
  /\ job[j].pc = "rejected"
  /\ job[j].route # "none"
  /\ contents' = updateContent(contents, job[j].content.id, errorUpdate(job[j].error))
  /\ job' = [job EXCEPT ![j].pc = "done", ![j].response = 500,
                        ![j].updates = Append(@, errorUpdate(job[j].error))]
  /\ cur' = 0
  /\ UNCHANGED <<currentContentId, files>>

\* catch branch: storage.updateContent(id, {status: "error", errorMessage})
Fail(j) ==
  /\ cur = j
  /\ job[j].pc = "rejected"
  /\ job[j].route # "none"
  /\ contents' = updateContent(contents, job[j].content.id, errorUpdate(job[j].error))
  /\ job' = [job EXCEPT ![j].pc = "done",
                        ![j].updates = Append(@, errorUpdate(job[j].error))]
  /\ cur' = 0
  /\ UNCHANGED <<currentContentId, files>>

(***************************************************************************)
(* Specifications                                                          *)
(***************************************************************************)
EmptyStore == [i \in {} |-> NoSnapshot]
EmptyDir == [q \in {} |-> FrameFile(0, 0)]

\* the server after start-up
Init ==
  /\ contents = EmptyStore
  /\ currentContentId = 1
  /\ job = [j \in Jobs |-> IdleJob]
  /\ files = EmptyDir
  /\ cur = 0

Pipeline(j) ==
  \/ \E ts \in Timestamps : StartJob(j, ts)
  \/ RenderFrame(j)
  \/ \E m \in RenderErrors : RenderFail(j, m)
  \/ Combine(j)
  \/ EncoderEnd(j)
  \/ \E m \in EncoderErrors : EncoderError(j, m)

Next ==
  \/ \E t \in ServerTitles, u \in Subjects, sc \in DraftPayloads : PostContents(t, u, sc)
  \/ \E id \in Ids, b \in PatchBodies : PatchContent(id, b)
  \/ \E id \in Ids : DeleteContent(id)
  \/ \E j \in Jobs, t \in ServerTitles, u \in Subjects, sc \in ServerPayloads :
       GenerateContent(j, t, u, sc)
  \/ \E j \in Jobs, id \in Ids : GenerateVideoRoute(j, id)
  \/ \E j \in Jobs : Pipeline(j)
  \/ \E j \in Jobs : Complete(j)
  \/ \E j \in Jobs : Fail(j)

Spec == Init /\ [][Next]_vars

\* generateVideo applied to one content drawn from the payload set
InitGen ==
  /\ contents = EmptyStore
  /\ currentContentId = 1
  /\ \E t \in Titles, u \in Subjects, sc \in Payloads :
       job = [j \in Jobs |->
                IF j = 1
                THEN [IdleJob EXCEPT !.pc = "started",
                        !.content = [id |-> 1, title |-> t, subject |-> u,
                                     scriptContent |-> sc]]
                ELSE IdleJob]
  /\ files = EmptyDir
  /\ cur = 1

NextGen == \E j \in Jobs : Pipeline(j)

SpecGen == InitGen /\ [][NextGen]_vars

(***************************************************************************)
(* The generateVideo of server/videoGenerator.js that renders with         *)
(* node-html-to-image and encodes with mergeToFile (lines 488-598), behind *)
(* the same routes                                                         *)
(***************************************************************************)
RECURSIVE joinItems(_, _)
RECURSIVE templateText(_)
\* Array.prototype.join(','), from position i on: null and undefined items
\* give the empty string
joinItems(items, i) ==
  IF i > Len(items) THEN ""
  ELSE (IF items[i].t \in {"null", "undefined"} THEN "" ELSE templateText(items[i]))
       \o (IF i < Len(items) THEN "," ELSE "")
       \o joinItems(items, i + 1)

\* `${v}`: String(v)
templateText(v) ==
  CASE v.t = "array" -> joinItems(v.items, 1)
    [] v.t = "object" -> "[object Object]"
    [] OTHER -> ToStr(v)

\* the frames pushed for one element of mainContent (lines 513-526); reading
\* a property of null or undefined throws
mergeSectionFrames(section) ==
  IF section.t \in {"null", "undefined"} THEN [threw |-> TRUE, frames |-> <<>>]
  ELSE [threw |-> FALSE,
        frames |->
          <<[text |-> Str("<strong>" \o templateText(Get(section, "sectionTitle"))
                          \o "</strong><br/><br/>"
                          \o templateText(Get(section, "script"))),
             duration |-> 8]>>
          \o (IF Truthy(Get(section, "interactiveElement"))
              THEN <<[text |-> Str("<strong>Interactive Element:</strong><br/><br/>"
                                   \o templateText(Get(section, "interactiveElement"))),
                      duration |-> 4]>>
              ELSE <<>>)]

RECURSIVE mergeMainFrames(_, _)
\* scriptContent.mainContent.forEach(...), from position i on
mergeMainFrames(items, i) ==
  IF i > Len(items) THEN [threw |-> FALSE, frames |-> <<>>]
  ELSE LET first == mergeSectionFrames(items[i])
           rest == mergeMainFrames(items, i + 1)
       IN [threw |-> first.threw \/ rest.threw, frames |-> first.frames \o rest.frames]

RECURSIVE splitOn(_, _, _)
\* s.split(sep), from position start on
splitOn(s, start, sep) ==
  LET at == {i \in start..Len(s) : IsSeparatorAt(s, i, sep)}
  IN IF at = {} THEN <<SubSeq(s, start, Len(s))>>
     ELSE LET i == CHOOSE p \in at : \A q \in at : p <= q
          IN <<SubSeq(s, start, i - 1)>> \o splitOn(s, i + Len(sep), sep)

RECURSIVE mergeParagraphFrames(_, _)
\* the loop over the paragraphs (lines 535-539), from position i on
mergeParagraphFrames(paragraphs, i) ==
  IF i > Len(paragraphs) THEN <<>>
  ELSE (IF IsBlank(paragraphs[i]) THEN <<>>
        ELSE <<[text |-> Str(paragraphs[i]), duration |-> 5]>>)
       \o mergeParagraphFrames(paragraphs, i + 1)

\* lines 505-541: the frames, or threw when the derivation raised a TypeError
\* (a property read on an undefined or null scriptContent or section); the
\* paragraphs are cut at the four characters backslash n backslash n
mergeFrames(scriptContent) ==
  IF scriptContent.t \in {"null", "undefined"} THEN [threw |-> TRUE, frames |-> <<>>]
  ELSE IF /\ Truthy(Get(scriptContent, "opening"))
          /\ Truthy(Get(scriptContent, "mainContent"))
          /\ Truthy(Get(scriptContent, "conclusion"))
  THEN LET main == IF Get(scriptContent, "mainContent").t = "array"
                   THEN mergeMainFrames(Get(scriptContent, "mainContent").items, 1)
                   ELSE [threw |-> FALSE, frames |-> <<>>]
       IN [threw |-> main.threw,
           frames |-> <<[text |-> Get(scriptContent, "opening"), duration |-> 5]>>
                      \o main.frames
                      \o <<[text |-> Get(scriptContent, "conclusion"), duration |-> 5]>>]
  ELSE [threw |-> FALSE,
        frames |-> mergeParagraphFrames(
                     splitOn(IF scriptContent.t = "string" THEN scriptContent.s
                             ELSE JSONStringify(scriptContent, 2).s, 1, "\\n\\n"), 1)]

mergeTypeErrorMessage == "Cannot read properties of undefined (reading 'opening')"

\* lines 488-545: output path and frame descriptions
StartJobMerge(j, timestamp) ==
  /\ cur = j
  /\ job[j].pc = "started"
  /\ LET c == job[j].content
         d == mergeFrames(c.scriptContent)
     IN job' = [job EXCEPT
                  ![j].outputPath = outputPathOf(c.subject, c.title, timestamp),
                  ![j].frames = d.frames,
                  ![j].error = IF d.threw THEN mergeTypeErrorMessage ELSE "",
                  ![j].failedAt = IF d.threw THEN "frames" ELSE "",
                  ![j].pc = IF d.threw THEN "rejected" ELSE "rendering"]
  /\ UNCHANGED <<contents, currentContentId, files, cur>>

\* one round of the loop of lines 548-557: createFrame writes the image of
\* frames[i] to frame_<i>.png and its path and duration are pushed
RenderFrameMerge(j) ==
  /\ cur = j
  /\ job[j].pc = "rendering"
  /\ Len(job[j].frameFiles) < Len(job[j].frames)
  /\ LET i == Len(job[j].frameFiles)
     IN /\ files' = writeFile(files, imagePathOf(i), FrameFile(j, i))
        /\ job' = [job EXCEPT ![j].frameFiles =
                     Append(@, [path |-> imagePathOf(i),
                                duration |-> job[j].frames[i + 1].duration])]
  /\ UNCHANGED <<contents, currentContentId, cur>>

\* createFrame rejects: the catch of lines 594-597 rethrows
RenderFailMerge(j, message) ==
  /\ cur = j
  /\ job[j].pc = "rendering"
  /\ Len(job[j].frameFiles) < Len(job[j].frames)
  /\ job' = [job EXCEPT ![j].pc = "rejected", ![j].error = message,
                        ![j].failedAt = "render"]
  /\ UNCHANGED <<contents, currentContentId, files, cur>>

\* lines 562-592: the frames are added as inputs and the encoder is started
\* (no manifest is written); the job then waits for the end or error event
MergeToFile(j) ==
  /\ cur = j
  /\ job[j].pc = "rendering"
  /\ Len(job[j].frameFiles) = Len(job[j].frames)
  /\ job' = [job EXCEPT ![j].pc = "encoding", ![j].encoderRuns = @ + 1]
  /\ cur' = 0
  /\ UNCHANGED <<contents, currentContentId, files>>

RECURSIVE unlinkInTurn(_, _, _)
\* frameFiles.forEach(frame => fs.unlinkSync(frame.path)), from position i
\* on, with no try/catch: an unlink of a path that is not there throws ENOENT
\* out of the forEach and out of the handler
unlinkInTurn(fs, frameFiles, i) ==
  IF i > Len(frameFiles)
  THEN [fs |-> fs, attempted |-> <<>>, failed |-> {}, threw |-> FALSE]
  ELSE IF frameFiles[i].path \notin DOMAIN fs
       THEN [fs |-> fs, attempted |-> <<frameFiles[i].path>>,
             failed |-> {frameFiles[i].path}, threw |-> TRUE]
       ELSE LET rest == unlinkInTurn(unlinkAll(fs, {frameFiles[i].path}), frameFiles, i + 1)
            IN [rest EXCEPT !.attempted = <<frameFiles[i].path>> \o @]

\* the encoder's 'end' event (lines 578-587): the frame images are unlinked
\* and the promise resolves with the output path; when an unlink throws, the
\* exception leaves the handler before resolve is reached and the promise is
\* never settled (an encoder that was given no input does not end well)
MergeEnd(j) ==
  /\ cur = 0
  /\ job[j].pc = "encoding"
  /\ Len(job[j].frameFiles) > 0
  /\ LET c == unlinkInTurn(files, job[j].frameFiles, 1)
     IN /\ files' = c.fs
        /\ job' = [job EXCEPT
                     ![j].pc = IF c.threw THEN "unsettled" ELSE "resolved",
                     ![j].result = IF c.threw THEN "" ELSE job[j].outputPath,
                     ![j].attempted = c.attempted,
                     ![j].deleted = DOMAIN files \ DOMAIN c.fs]
        /\ cur' = IF c.threw THEN 0 ELSE j
  /\ UNCHANGED <<contents, currentContentId>>

\* the encoder's 'error' event (lines 588-591): the promise rejects
MergeError(j, message) ==
  /\ cur = 0
  /\ job[j].pc = "encoding"
  /\ job' = [job EXCEPT ![j].pc = "rejected", ![j].error = message,
                        ![j].failedAt = "encoder"]
  /\ cur' = j
  /\ UNCHANGED <<contents, currentContentId, files>>

PipelineMerge(j) ==
  \/ \E ts \in Timestamps : StartJobMerge(j, ts)
  \/ RenderFrameMerge(j)
  \/ \E m \in RenderErrors : RenderFailMerge(j, m)
  \/ MergeToFile(j)
  \/ MergeEnd(j)
  \/ \E m \in EncoderErrors : MergeError(j, m)

NextMerge ==
  \/ \E t \in ServerTitles, u \in Subjects, sc \in DraftPayloads : PostContents(t, u, sc)
  \/ \E id \in Ids, b \in PatchBodies : PatchContent(id, b)
  \/ \E id \in Ids : DeleteContent(id)
  \/ \E j \in Jobs, t \in ServerTitles, u \in Subjects, sc \in ServerPayloads :
       GenerateContent(j, t, u, sc)
  \/ \E j \in Jobs, id \in Ids : GenerateVideoRoute(j, id)
  \/ \E j \in Jobs : PipelineMerge(j)
  \/ \E j \in Jobs : Complete(j)
  \/ \E j \in Jobs : Fail(j)

\* the server with this generateVideo linked in
SpecMerge == Init /\ [][NextMerge]_vars

(***************************************************************************)
(* MemStorage on its own: any sequence of createContent, updateContent and *)
(* deleteContent calls                                                     *)
(***************************************************************************)
MaxStoreIds == 3

StoreIds == 1..MaxStoreIds

\* the records handed to createContent
StoreInserts ==
  {[title |-> "Demo", subject |-> "coding", scriptContent |-> Str("Para one."),
    status |-> "draft"]}

\* the objects handed to updateContent: a PATCH body is passed on as it is,
\* so it may name any field, id included; the routes' own updates carry a
\* status
StoreBodies ==
  {[scriptContent |-> Str("Edited")], [id |-> 2],
   completedUpdate("public/videos/coding_demo_1700000000.mp4")}

\* createContent with an id counter that is not advanced
CreateContentCall_SameId(insertContent) ==
  /\ currentContentId <= MaxStoreIds
  /\ contents' = createContent(contents, currentContentId, insertContent)
  /\ currentContentId' = IF currentContentId >= 2 THEN currentContentId
                         ELSE currentContentId + 1
  /\ UNCHANGED <<job, files, cur>>

\* storage.createContent(insertContent)
CreateContentCall(insertContent) ==
  /\ currentContentId <= MaxStoreIds
  /\ contents' = createContent(contents, currentContentId, insertContent)
  /\ currentContentId' = currentContentId + 1
  /\ UNCHANGED <<job, files, cur>>

\* storage.updateContent(id, body)
UpdateContentCall(id, body) ==
  /\ contents' = updateContent(contents, id, body)
  /\ UNCHANGED <<currentContentId, job, files, cur>>

\* storage.deleteContent(id)
DeleteContentCall(id) ==
  /\ contents' = deleteContent(contents, id)
  /\ UNCHANGED <<currentContentId, job, files, cur>>

\* what updateContent returns: undefined for an id that is not stored, else
\* the updated record
updateContentResult(store, id, body) ==
  IF id \notin DOMAIN store THEN Undef ELSE merged(store[id], body)

\* what deleteContent returns
deleteContentResult(store, id) == id \in DOMAIN store

\* the status of the response of PATCH /contents/:id
patchStatus(store, id, body) ==
  IF updateContentResult(store, id, body) = Undef THEN 404 ELSE 200

\* the status of the response of DELETE /contents/:id
deleteStatus(store, id) == IF deleteContentResult(store, id) THEN 200 ELSE 404

\* the record GET /contents/:id answers with, undefined (404) when none
getContent(store, id) == IF id \in DOMAIN store THEN store[id] ELSE Undef

NextStore ==
  \/ \E c \in StoreInserts : CreateContentCall(c)
  \/ \E id \in StoreIds, b \in StoreBodies : UpdateContentCall(id, b)
  \/ \E id \in StoreIds : DeleteContentCall(id)

SpecStore == Init /\ [][NextStore]_vars

(***************************************************************************)
(* createFrame, the body text: the words of the cleaned content are put on  *)
(* lines of at most maxWidth pixels, one fillText call per line            *)
(***************************************************************************)
WIDTH == 1280
HEIGHT == 720
textTop == 160
textLeft == 70
lineHeight == 34
sideMargins == 160
bottomMargin == 100
maxWidth == WIDTH - sideMargins

\* the advance of one character of the body font, in pixels
charWidth == 14

\* ctx.measureText(s).width
measureText(s) == charWidth * Len(s)

ellipsis == "..."

MaxWords == 16
WordLens == {5, 60}
FrameTypes == {"standard", "section", "opening", "conclusion", "interactive"}

\* textY when the body text starts: 160, moved down by the label of the
\* frame type or, on the other frames, by the heading when there is one
bodyTopOf(frameType, heading) ==
  textTop + (CASE frameType = "interactive" -> 30
               [] frameType = "opening" -> 20
               [] frameType = "conclusion" -> 20
               [] OTHER -> IF heading THEN 45 ELSE 0)

RECURSIVE wordsText(_, _)
\* a content of count words of len characters, separated by single spaces
wordsText(len, count) ==
  IF count <= 0 THEN ""
  ELSE IF count = 1 THEN Rep("w", len)
  ELSE wordsText(len, count - 1) \o " " \o Rep("w", len)

\* ctx.fillText(text, 70, y)
fillText(draws, text, y) == Append(draws, [text |-> text, x |-> textLeft, y |-> y])

\* one round of the for loop over the words
WrapWord(j) ==
  /\ job[j].canvas.pc = "wrapping"
  /\ LET c == job[j].canvas
         word == c.words[c.n + 1]
         testLine == c.line \o word \o " "
         testWidth == measureText(testLine)
         last == c.n + 1 >= Len(c.words)
     IN job' = [job EXCEPT ![j].canvas =
          IF testWidth > maxWidth /\ c.n > 0
          THEN IF c.textY + lineHeight > HEIGHT - bottomMargin
               THEN [c EXCEPT !.draws = fillText(fillText(c.draws, c.line, c.textY),
                                                 ellipsis, c.textY + lineHeight),
                              !.line = word \o " ",
                              !.textY = c.textY + lineHeight,
                              !.pc = "after-loop"]
               ELSE [c EXCEPT !.draws = fillText(c.draws, c.line, c.textY),
                              !.line = word \o " ",
                              !.textY = c.textY + lineHeight,
                              !.n = c.n + 1,
                              !.pc = IF last THEN "after-loop" ELSE "wrapping"]
          ELSE [c EXCEPT !.line = testLine, !.n = c.n + 1,
                         !.pc = IF last THEN "after-loop" ELSE "wrapping"]]
  /\ UNCHANGED <<contents, currentContentId, files, cur>>

\* after the loop: if (line != '') ctx.fillText(line, 70, textY)
FlushLine(j) ==
  /\ job[j].canvas.pc = "after-loop"
  /\ LET c == job[j].canvas
     IN job' = [job EXCEPT ![j].canvas =
                  [c EXCEPT !.draws = IF c.line # "" THEN fillText(c.draws, c.line, c.textY)
                                      ELSE c.draws,
                            !.pc = "drawn"]]
  /\ UNCHANGED <<contents, currentContentId, files, cur>>

\* createFrame at the start of the body text of one frame
InitWrap ==
  /\ contents = EmptyStore
  /\ currentContentId = 1
  /\ \E frameType \in FrameTypes, heading \in BOOLEAN, len \in WordLens,
        count \in 0..MaxWords :
       job = [j \in Jobs |->
                IF j = 1
                THEN [IdleJob EXCEPT !.canvas =
                        [pc |-> "wrapping",
                         words |-> splitOn(wordsText(len, count), 1, " "),
                         n |-> 0, line |-> "",
                         textY |-> bodyTopOf(frameType, heading), draws |-> <<>>]]
                ELSE IdleJob]
  /\ files = EmptyDir
  /\ cur = 0

NextWrap ==
  \/ \E j \in Jobs : WrapWord(j)
  \/ \E j \in Jobs : FlushLine(j)

SpecWrap == InitWrap /\ [][NextWrap]_vars

(***************************************************************************)
(* The server with its scheduling: a job's code runs whenever it is its     *)
(* turn (the event loop runs every continuation that is ready), and the    *)
(* encoder signals end or error for every invocation.  Requests come or    *)
(* not as the clients please.                                              *)
(***************************************************************************)
\* the scripts the AI returns to POST /generate-content in SpecLive
LivePayloads == {Str("Para one.")}

\* the request bodies of PATCH /contents/:id in SpecLive: req.body goes to
\* updateContent as it is, a status included
LivePatchBodies == {[status |-> "processing"]}

NextLive ==
  \/ \E id \in Ids, b \in LivePatchBodies : PatchContent(id, b)
  \/ \E id \in Ids : DeleteContent(id)
  \/ \E j \in Jobs, t \in ServerTitles, u \in Subjects, sc \in LivePayloads :
       GenerateContent(j, t, u, sc)
  \/ \E j \in Jobs, id \in Ids : GenerateVideoRoute(j, id)
  \/ \E j \in Jobs : Pipeline(j)
  \/ \E j \in Jobs : Complete(j)
  \/ \E j \in Jobs : Fail(j)

\* the steps of job j: the code of generateVideo, the encoder's events and
\* the route's continuation
JobStep(j) == Pipeline(j) \/ Complete(j) \/ Fail(j)

SpecLive == Init /\ [][NextLive]_vars /\ \A j \in Jobs : WF_vars(JobStep(j))

(***************************************************************************)
(* Properties                                                              *)
(***************************************************************************)
\* generateVideo has derived the frames of job j and handed them to the
\* rendering loop
AtRenderer(j) == job[j].pc \in {"rendering", "encoding", "resolved"}

\* generateVideo of job j has got past the derivation of the frames, one way
\* or the other
Derived(j) == job[j].pc \notin {"idle", "started"} /\ job[j].response # 404

fallbackText(title) == "No script content available for: " \o title

\* C1: for every scriptContent and title, generateVideo derives its blocks
\* without throwing: it never rejects before a block sequence exists.
C1_NormalizationNeverRaises ==
  \A j \in Jobs : Derived(j) => Len(job[j].frames) >= 1

\* C2: the block sequence handed to the renderer has at least one block, and
\* when the steps for the payload's shape yield no block it is exactly the one
\* fallback block.
C2_AtLeastOneBlock ==
  \A j \in Jobs :
    AtRenderer(j) =>
      /\ Len(job[j].frames) >= 1
      /\ Len(shapeFrames(job[j].content.scriptContent).frames) = 0 =>
           /\ Len(job[j].frames) = 1
           /\ job[j].frames[1].text = fallbackText(job[j].content.title)

\* the renderer has drawn the fallback block of an empty-string payload
C2_Witness ==
  \E j \in Jobs :
    /\ AtRenderer(j)
    /\ job[j].content.scriptContent = Str("")
    /\ Len(job[j].frameFiles) = 1
    /\ job[j].frames[1].text = fallbackText(job[j].content.title)

\* C3: a null or undefined payload with title X gives exactly one block, the
\* fallback block "No script content available for: X".
C3_NullGivesFallback ==
  \A j \in Jobs :
    (Derived(j) /\ job[j].content.scriptContent \in {Null, Undef}) =>
      /\ Len(job[j].frames) = 1
      /\ job[j].frames[1].text = fallbackText(job[j].content.title)

\* a job whose generation has started and has not yet finished
InFlight(j) == job[j].pc \in {"started", "rendering", "encoding"}

\* the scratch file names job j has written so far
writtenPaths(j) ==
  {job[j].frameFiles[i].path : i \in 1..Len(job[j].frameFiles)}
  \cup (IF job[j].pc = "encoding" THEN {concatFilePath} ELSE {})

\* C4: two generation jobs that overlap in time never use the same scratch
\* file name, neither for a frame image nor for the concat manifest.
C4_DistinctScratchNames ==
  \A j1 \in Jobs, j2 \in Jobs :
    (j1 # j2 /\ InFlight(j1) /\ InFlight(j2)) =>
      writtenPaths(j1) \cap writtenPaths(j2) = {}

\* a request that started a generation job (it was answered 201 or 200)
StartedJob(j) == job[j].response \in {200, 201}

IsCompletedUpdate(u) ==
  /\ u.status = "completed"
  /\ "videoUrl" \in DOMAIN u
  /\ u.videoUrl.t = "string"
  /\ u.videoUrl.s # ""

IsErrorUpdate(u) ==
  /\ u.status = "error"
  /\ "errorMessage" \in DOMAIN u
  /\ u.errorMessage.t = "string"
  /\ u.errorMessage.s # ""

\* C5: a generation job writes exactly one terminal update: completed with a
\* videoUrl when generateVideo resolved, error with a non-empty errorMessage
\* when it rejected; none before generateVideo has settled, never both.
C5_OneTerminalUpdate ==
  \A j \in Jobs :
    StartedJob(j) =>
      /\ job[j].pc # "done" => job[j].updates = <<>>
      /\ job[j].pc = "done" =>
           /\ Len(job[j].updates) = 1
           /\ job[j].result # "" => IsCompletedUpdate(job[j].updates[1])
           /\ job[j].result = "" => IsErrorUpdate(job[j].updates[1])

\* one job has ended completed and its record shows it, another has ended in
\* error
C5_Witness ==
  \E j1 \in Jobs, j2 \in Jobs :
    /\ StartedJob(j1) /\ job[j1].pc = "done" /\ job[j1].result # ""
    /\ job[j1].content.id \in DOMAIN contents
    /\ contents[job[j1].content.id].status = "completed"
    /\ contents[job[j1].content.id].videoUrl = job[j1].updates[1].videoUrl
    /\ StartedJob(j2) /\ job[j2].pc = "done" /\ job[j2].result = ""
    /\ job[j2].updates[1].status = "error"

\* the elements of the mainContent array of job j's payload
mainItems(j) == Get(job[j].content.scriptContent, "mainContent").items

\* element i of mainContent carries a (non-empty) interactiveElement
HasInteractive(j, i) == Truthy(Get(mainItems(j)[i], "interactiveElement"))

\* the payload of job j is structured with a non-empty opening, a mainContent
\* array of at least one section object, and a non-empty conclusion
FullyStructured(j) ==
  LET sc == job[j].content.scriptContent
  IN /\ sc.t = "object"
     /\ Truthy(Get(sc, "opening"))
     /\ Truthy(Get(sc, "conclusion"))
     /\ Get(sc, "mainContent").t = "array"
     /\ Len(mainItems(j)) >= 1
     /\ \A i \in 1..Len(mainItems(j)) : mainItems(j)[i].t = "object"

\* the position in the block sequence of the section block of element i
SectionPos(j, i) == 1 + i + Cardinality({k \in 1..(i - 1) : HasInteractive(j, k)})

\* C6: for a structured payload with opening, n >= 1 section objects and
\* conclusion, the blocks are: the opening block, then for each section in
\* input order its section block, followed by its interactive block when it
\* has an interactiveElement, then the conclusion block, and nothing else.
C6_StructuredOrder ==
  \A j \in Jobs :
    (AtRenderer(j) /\ FullyStructured(j)) =>
      LET f == job[j].frames
          n == Len(mainItems(j))
      IN /\ Len(f) = 2 + n + Cardinality({k \in 1..n : HasInteractive(j, k)})
         /\ f[1].type = "opening"
         /\ f[Len(f)].type = "conclusion"
         /\ \A i \in 1..n :
              /\ f[SectionPos(j, i)].type = "section"
              /\ f[SectionPos(j, i)].index = i - 1
              /\ HasInteractive(j, i) => f[SectionPos(j, i) + 1].type = "interactive"

\* two sections, the first with an interactive element and the second
\* without, between opening and conclusion
C6_Witness ==
  \E j \in Jobs :
    /\ AtRenderer(j) /\ FullyStructured(j)
    /\ Len(mainItems(j)) = 2
    /\ HasInteractive(j, 1) /\ ~HasInteractive(j, 2)
    /\ Len(job[j].frames) = 5
    /\ job[j].frames[3].type = "interactive"
    /\ job[j].frames[4].type = "section"

interactivePrefix == "<strong>Interactive Element:</strong><br/><br/>"

\* C7: every interactive block comes right after the section block of the
\* mainContent element that carries its interactiveElement; it is never first
\* and never follows a block of another kind or of another section.
C7_InteractiveFollowsParent ==
  \A j \in Jobs :
    \A k \in 1..Len(job[j].frames) :
      job[j].frames[k].type = "interactive" =>
        /\ k > 1
        /\ job[j].frames[k - 1].type = "section"
        /\ LET parent == mainItems(j)[job[j].frames[k - 1].index + 1]
           IN /\ Truthy(Get(parent, "interactiveElement"))
              /\ job[j].frames[k].text =
                   interactivePrefix \o safeGetText(Get(parent, "interactiveElement"))

\* the second of two sections has an interactive block, the first has none
C7_Witness ==
  \E j \in Jobs :
    /\ AtRenderer(j)
    /\ Len(job[j].frames) = 3
    /\ job[j].frames[1].type = "section"
    /\ job[j].frames[2].type = "section"
    /\ job[j].frames[3].type = "interactive"
    /\ job[j].frames[3].text = interactivePrefix \o "Try it"

RECURSIVE SumDurations(_, _)
\* the sum of the durations of the first k rendered frames
SumDurations(frameFiles, k) ==
  IF k = 0 THEN 0 ELSE SumDurations(frameFiles, k - 1) + frameFiles[k].duration

\* C8: the manifest lists, frame after frame in frameIndex order, the frame's
\* image path durationSeconds times in a row with unit duration 1, and then
\* once more the last frame's image: sum(durationSeconds) + 1 file entries.
C8_ConcatPlan ==
  \A j \in Jobs :
    (job[j].pc = "encoding" /\ concatFilePath \in DOMAIN files
       /\ files[concatFilePath].job = j) =>
      LET ff == job[j].frameFiles
          e == files[concatFilePath].entries
      IN /\ Len(e) = SumDurations(ff, Len(ff)) + 1
         /\ \A k \in 1..Len(ff) :
              /\ ff[k].path = imagePathOf(k - 1)
              /\ \A m \in 1..ff[k].duration :
                   e[SumDurations(ff, k - 1) + m] = [file |-> ff[k].path, duration |-> 1]
         /\ e[Len(e)].file = ff[Len(ff)].path
         /\ e[Len(e)].duration = NoDuration

\* a manifest of three frames lasting 6, 12 and 6 seconds: 25 entries
C8_Witness ==
  \E j \in Jobs :
    /\ job[j].pc = "encoding"
    /\ concatFilePath \in DOMAIN files
    /\ files[concatFilePath].job = j
    /\ Len(job[j].frameFiles) = 3
    /\ job[j].frameFiles[2].duration = 12
    /\ Len(files[concatFilePath].entries) = 25

\* the section frames of job j, as positions in its block sequence
SectionBlocks(j) == {k \in 1..Len(job[j].frames) : job[j].frames[k].type = "section"}

\* the length of the body text of the section at position k: the resolved
\* script of its mainContent element, without the heading
BodyLen(j, k) == Len(sectionContentOf(mainItems(j)[job[j].frames[k].index + 1]))

\* C9 as stated: a section block lasts 7 + min(5, floor(L/150)) seconds, L
\* being the length of the block's displayText.
C9_DurationFromDisplayText ==
  \A j \in Jobs :
    \A k \in SectionBlocks(j) :
      job[j].frames[k].duration = 7 + Min(5, Len(job[j].frames[k].text) \div 150)

\* C9 amended: a section block lasts 7 + min(5, floor(L/150)) seconds, L being
\* the length of the section's body text (without the heading put before it);
\* so it lies in 7..12, never decreases when the body grows, and grows by
\* exactly 2 for 300 more characters when the shorter body's bonus is 0.
C9_DurationFromBodyText ==
  \A j \in Jobs :
    \A k \in SectionBlocks(j) :
      /\ job[j].frames[k].duration = 7 + Min(5, BodyLen(j, k) \div 150)
      /\ job[j].frames[k].duration \in 7..12
      /\ \A k2 \in SectionBlocks(j) :
           /\ BodyLen(j, k) <= BodyLen(j, k2) =>
                job[j].frames[k].duration <= job[j].frames[k2].duration
           /\ (BodyLen(j, k2) = BodyLen(j, k) + 300 /\ BodyLen(j, k) < 150) =>
                job[j].frames[k2].duration = job[j].frames[k].duration + 2

\* two sections whose bodies are 149 and 449 characters long: 7 and 9 seconds
C9_Witness ==
  \E j \in Jobs :
    /\ AtRenderer(j)
    /\ \E k \in SectionBlocks(j), k2 \in SectionBlocks(j) :
         /\ BodyLen(j, k) = 149 /\ BodyLen(j, k2) = 449
         /\ job[j].frames[k].duration = 7
         /\ job[j].frames[k2].duration = 9

\* C10 as stated: simple and content blocks last 7 + min(5,
\* floor(len(displayText)/150)) seconds, like section blocks.
C10_SimpleContentLikeSection ==
  \A j \in Jobs :
    \A k \in 1..Len(job[j].frames) :
      job[j].frames[k].type \in {"simple", "content"} =>
        job[j].frames[k].duration = 7 + Min(5, Len(job[j].frames[k].text) \div 150)

\* C10 amended: a simple block lasts 5 seconds whatever its text; a content
\* block lasts 7 + min(5, floor(len(displayText)/200)) seconds.
C10_SimpleFixedContentPer200 ==
  \A j \in Jobs :
    \A k \in 1..Len(job[j].frames) :
      /\ job[j].frames[k].type = "simple" => job[j].frames[k].duration = 5
      /\ job[j].frames[k].type = "content" =>
           job[j].frames[k].duration = 7 + Min(5, Len(job[j].frames[k].text) \div 200)

\* a content block of 199 characters has been timed: 7 seconds
C10_Witness ==
  \E j \in Jobs :
    /\ AtRenderer(j)
    /\ \E k \in 1..Len(job[j].frames) :
         /\ job[j].frames[k].type = "content"
         /\ Len(job[j].frames[k].text) = 199
         /\ job[j].frames[k].duration = 7

\* the positions of the blocks of job j of a given type
BlocksOfType(j, type) == {k \in 1..Len(job[j].frames) : job[j].frames[k].type = type}

\* C11: every opening block lasts 6 seconds, every conclusion block 6 seconds
\* and every interactive block 5 seconds, whatever the length of its text.
C11_FixedDurations ==
  \A j \in Jobs :
    Derived(j) =>
      /\ \A k \in BlocksOfType(j, "opening") : job[j].frames[k].duration = 6
      /\ \A k \in BlocksOfType(j, "conclusion") : job[j].frames[k].duration = 6
      /\ \A k \in BlocksOfType(j, "interactive") : job[j].frames[k].duration = 5

\* a job whose opening, interactive and conclusion blocks all carry texts of
\* several hundred characters
C11_Witness ==
  \E j \in Jobs :
    /\ AtRenderer(j)
    /\ \E k \in BlocksOfType(j, "opening") : Len(job[j].frames[k].text) >= 700
    /\ \E k \in BlocksOfType(j, "interactive") : Len(job[j].frames[k].text) >= 400
    /\ \E k \in BlocksOfType(j, "conclusion") : Len(job[j].frames[k].text) >= 1000

\* the rendering loop of job j has run to its end
RenderedAll(j) == job[j].encoderRuns > 0

\* C12: in a job with N blocks the frames are rendered with frameIndex 0, 1,
\* ..., N-1 in block order, without gap or repeat, every render call is given
\* totalFrames = N, and the rendered-frame list ends with exactly N entries,
\* one per block in block order, each with an integer duration of at least 1.
C12_FramesIndexedInOrder ==
  \A j \in Jobs :
    LET N == Len(job[j].frames)
        calls == job[j].calls
        frameFiles == job[j].frameFiles
    IN /\ Len(calls) <= N
       /\ \A k \in 1..Len(calls) :
            /\ calls[k].frameNum = k - 1
            /\ calls[k].totalFrames = N
            /\ calls[k].text = job[j].frames[k].text
       /\ Len(frameFiles) <= Len(calls)
       /\ \A k \in 1..Len(frameFiles) :
            /\ frameFiles[k].path = imagePathOf(calls[k].frameNum)
            /\ frameFiles[k].duration = job[j].frames[k].duration
            /\ frameFiles[k].duration \in Nat
            /\ frameFiles[k].duration >= 1
       /\ RenderedAll(j) => Len(calls) = N /\ Len(frameFiles) = N

\* a job of four blocks or more whose frames have all been rendered
C12_Witness ==
  \E j \in Jobs :
    /\ RenderedAll(j)
    /\ Len(job[j].frames) >= 4
    /\ Len(job[j].frameFiles) = Len(job[j].frames)
    /\ job[j].calls[4].frameNum = 3

\* the payload of end-to-end scenario 1
Scenario1Payload ==
  Obj(<<P("opening", Str("Hi")),
        P("mainContent", Arr(<<Section(Str("A"), Str("Body"), Undef)>>)),
        P("conclusion", Str("Bye"))>>)

\* job j runs scenario 1 and has derived its blocks
Scenario1(j) ==
  /\ job[j].content.scriptContent = Scenario1Payload
  /\ job[j].content.title = "Demo"
  /\ Derived(j)

\* the manifest of job j is on disk
ManifestWritten(j) ==
  /\ job[j].pc = "encoding"
  /\ concatFilePath \in DOMAIN files
  /\ files[concatFilePath].job = j

\* the blocks of job j have the given types, texts and durations, in order
BlocksAre(j, types, texts, durations) ==
  /\ Len(job[j].frames) = Len(types)
  /\ \A k \in 1..Len(types) :
       /\ job[j].frames[k].type = types[k]
       /\ job[j].frames[k].text = texts[k]
       /\ job[j].frames[k].duration = durations[k]

\* C13 as stated: scenario 1 yields the blocks opening "Hi", section
\* "A: Body", conclusion "Bye" with durations [6,7,6], and a concat plan of 8
\* entries before the trailing duplicate.
C13_Scenario1AsStated ==
  \A j \in Jobs :
    Scenario1(j) =>
      /\ BlocksAre(j, <<"opening", "section", "conclusion">>,
                      <<"Hi", "A: Body", "Bye">>, <<6, 7, 6>>)
      /\ ManifestWritten(j) => Len(files[concatFilePath].entries) - 1 = 8

\* C13: scenario 1 yields the blocks opening "Hi", section
\* "<strong>A</strong><br/><br/>Body", conclusion "Bye" with durations
\* [6,7,6], and a concat plan of 6 + 7 + 6 = 19 entries before the trailing
\* duplicate.
C13_Scenario1 ==
  \A j \in Jobs :
    Scenario1(j) =>
      /\ BlocksAre(j, <<"opening", "section", "conclusion">>,
                      <<"Hi", "<strong>A</strong><br/><br/>Body", "Bye">>, <<6, 7, 6>>)
      /\ ManifestWritten(j) =>
           /\ Len(files[concatFilePath].entries) - 1 = 19
           /\ files[concatFilePath].entries[20] = Entry(imagePathOf(2), NoDuration)

\* scenario 1 with its manifest written
C13_Witness == \E j \in Jobs : Scenario1(j) /\ ManifestWritten(j)

RECURSIVE Paragraphs(_, _, _)
\* the pieces of s from position start on when it is cut at every occurrence
\* of one of the separators seps, scanning from the left
Paragraphs(s, start, seps) ==
  LET at == {i \in start..Len(s) : \E sep \in seps : IsSeparatorAt(s, i, sep)}
  IN IF at = {} THEN <<SubSeq(s, start, Len(s))>>
     ELSE LET i == CHOOSE p \in at : \A q \in at : p <= q
              sep == CHOOSE x \in seps : IsSeparatorAt(s, i, x)
          IN <<SubSeq(s, start, i - 1)>> \o Paragraphs(s, i + Len(sep), seps)

\* the paragraphs that are not whitespace-only, in their order
NonBlank(paragraphs) == SelectSeq(paragraphs, LAMBDA p : ~IsBlank(p))

\* the blocks of job j are exactly the given texts, each lasting 5 seconds
ParagraphBlocks(j, texts) ==
  /\ Len(job[j].frames) = Len(texts)
  /\ \A k \in 1..Len(texts) :
       job[j].frames[k].text = texts[k] /\ job[j].frames[k].duration = 5

\* the payload of job j is a string and its blocks are derived
StringPayload(j) == job[j].content.scriptContent.t = "string" /\ Derived(j)

BlankLine == "\n\n"
EscapedBlankLine == "\\\n\\\n"

\* C14 as stated: a string payload is split at blank lines and its blocks are
\* exactly the non-blank paragraphs in order, each lasting 5 seconds.
C14_ParagraphsAsStated ==
  \A j \in Jobs :
    StringPayload(j) =>
      ParagraphBlocks(j, NonBlank(Paragraphs(job[j].content.scriptContent.s, 1, {BlankLine})))

\* C14: a string payload is split at every blank line ("\n\n") and at every
\* backslash-newline-backslash-newline sequence; when some paragraph is not
\* whitespace-only the blocks are exactly the non-blank paragraphs in order,
\* each lasting 5 seconds, and otherwise the single fallback block of 10
\* seconds; "Para one.\n\nPara two." gives the two blocks "Para one." and
\* "Para two." of 5 seconds each.
C14_Paragraphs ==
  \A j \in Jobs :
    StringPayload(j) =>
      LET s == job[j].content.scriptContent.s
          texts == NonBlank(Paragraphs(s, 1, {BlankLine, EscapedBlankLine}))
      IN /\ IF texts # <<>> THEN ParagraphBlocks(j, texts)
            ELSE /\ Len(job[j].frames) = 1
                 /\ job[j].frames[1].text = fallbackText(job[j].content.title)
                 /\ job[j].frames[1].duration = 10
         /\ s = "Para one.\n\nPara two." =>
              ParagraphBlocks(j, <<"Para one.", "Para two.">>)

\* a string cut at both kinds of separator, with a whitespace-only paragraph
\* dropped, has been turned into three blocks
C14_Witness ==
  \E j \in Jobs :
    /\ StringPayload(j)
    /\ Len(Paragraphs(job[j].content.scriptContent.s, 1, {BlankLine, EscapedBlankLine})) = 4
    /\ ParagraphBlocks(j, <<"One", "Two", "Three">>)

\* the payload of job j is an object (or array) that has none of opening,
\* mainContent and conclusion, and its blocks are derived
UnstructuredObject(j) ==
  LET sc == job[j].content.scriptContent
  IN /\ sc.t \in {"object", "array"}
     /\ Get(sc, "opening") = Undef
     /\ Get(sc, "mainContent") = Undef
     /\ Get(sc, "conclusion") = Undef
     /\ Derived(j)

NestedObject == Obj(<<P("foo", Obj(<<P("bar", Arr(<<Obj(<<P("baz", Null)>>)>>))>>))>>)
NestedObjectText ==
  "{\n  \"foo\": {\n    \"bar\": [\n      {\n        \"baz\": null\n      }\n    ]\n  }\n}"

\* C15: an object payload that has none of opening, mainContent and
\* conclusion ({} included) gives exactly one block, holding the
\* pretty-printed serialization of the whole object, with duration 10.
C15_ObjectDump ==
  \A j \in Jobs :
    UnstructuredObject(j) =>
      LET sc == job[j].content.scriptContent
      IN /\ Len(job[j].frames) = 1
         /\ job[j].frames[1].duration = 10
         /\ job[j].frames[1].text = Stringify(sc, 2, "")
         /\ sc = Obj(<<>>) => job[j].frames[1].text = "{}"
         /\ sc = NestedObject => job[j].frames[1].text = NestedObjectText

\* the nested object has been turned into its one block
C15_Witness ==
  \E j \in Jobs :
    /\ UnstructuredObject(j)
    /\ job[j].content.scriptContent = NestedObject
    /\ AtRenderer(j)
    /\ Len(job[j].frames[1].text) > 40

\* the rendering of a frame of job j has failed
RenderFailed(j) == job[j].failedAt = "render"

\* what holds of a job from the failure of the rendering of its frame k on:
\* the failing call was the call for frame k, made after the k calls for the
\* frames before it; no later frame is rendered, no manifest is written, the
\* encoder is not started, generateVideo has rejected with the error, and the
\* one update the route writes is the error update
AfterRenderFailure(j) ==
  LET k == Len(job[j].frameFiles)
  IN /\ job[j].pc \in {"rejected", "done"}
     /\ k < Len(job[j].frames)
     /\ Len(job[j].calls) = k + 1
     /\ \A i \in 1..(k + 1) : job[j].calls[i].frameNum = i - 1
     /\ job[j].encoderRuns = 0
     /\ ~(concatFilePath \in DOMAIN files /\ files[concatFilePath].job = j)
     /\ job[j].result = ""
     /\ job[j].error \in RenderErrors
     /\ job[j].pc = "done" =>
          /\ Len(job[j].updates) = 1
          /\ job[j].updates[1].status = "error"
          /\ job[j].updates[1].errorMessage = Str(job[j].error)

\* the step in which the route of a job whose rendering failed writes the
\* job's outcome leaves the record, when it is still stored, with status error
RenderFailureRecorded ==
  \A j \in Jobs :
    (/\ RenderFailed(j)
     /\ job[j].pc = "rejected"
     /\ job'[j].pc = "done"
     /\ job[j].content.id \in DOMAIN contents)
    => /\ job[j].content.id \in DOMAIN contents'
       /\ contents'[job[j].content.id].status = "error"
       /\ contents'[job[j].content.id].errorMessage = Str(job[j].error)

\* C16: the frames of a job are rendered one after another, and when the
\* rendering of frame k fails the job fails at once: frames k+1..N-1 are not
\* rendered, no manifest is written, the encoder is never invoked,
\* generateVideo rejects, and the record ends with status error.
C16_RenderFailureFailsJob ==
  /\ [](\A j \in Jobs : RenderFailed(j) => AfterRenderFailure(j))
  /\ [][RenderFailureRecorded]_vars

\* a job of two frames whose second frame failed to render, after its route
\* has recorded the error
C16_Witness ==
  \E j \in Jobs :
    /\ RenderFailed(j)
    /\ job[j].pc = "done"
    /\ Len(job[j].frames) = 2
    /\ Len(job[j].frameFiles) = 1
    /\ job[j].content.id \in DOMAIN contents
    /\ contents[job[j].content.id].status = "error"

\* the encoder of job j has signalled its successful end
EndSignalled(j) ==
  /\ job[j].encoderRuns > 0
  /\ job[j].pc # "encoding"
  /\ job[j].failedAt # "encoder"

\* the paths job j has tried to unlink
AttemptedPaths(j) == {job[j].attempted[a] : a \in 1..Len(job[j].attempted)}

\* C17: after the encoder's successful end generateVideo attempts to delete
\* every frame image of the job and the manifest, and resolves with the
\* output path even when deletions fail: a failed deletion neither fails the
\* job nor stops the remaining deletions.
C17_CleanupNeverFailsJob ==
  \A j \in Jobs :
    EndSignalled(j) =>
      /\ \A i \in 1..Len(job[j].frameFiles) : job[j].frameFiles[i].path \in AttemptedPaths(j)
      /\ job[j].manifest => concatFilePath \in AttemptedPaths(j)
      /\ job[j].pc \in {"resolved", "done"}
      /\ job[j].result = job[j].outputPath

\* a job that resolved although one of its deletions failed
C17_DeletionFailed ==
  \E j \in Jobs :
    /\ EndSignalled(j)
    /\ job[j].pc = "resolved"
    /\ AttemptedPaths(j) \ job[j].deleted # {}

\* generateVideo of job j has just rejected with the encoder's error
EncoderFailed(j) == job[j].failedAt = "encoder" /\ job[j].pc = "rejected"

\* C18: when the encoder signals an error generateVideo rejects with that
\* error and deletes nothing: every frame image the job rendered and its
\* manifest are still present once the job has failed.
C18_EncoderErrorKeepsFiles ==
  \A j \in Jobs :
    EncoderFailed(j) =>
      /\ job[j].error \in EncoderErrors
      /\ job[j].result = ""
      /\ job[j].attempted = <<>>
      /\ \A p \in scratchPaths(j) : p \in DOMAIN files

\* the step in which generateVideo rejects with the encoder's error leaves
\* the scratch directory as it was
EncoderErrorDeletesNothing ==
  [][(\E j \in Jobs : ~EncoderFailed(j) /\ EncoderFailed(j)') => files' = files]_vars

\* the response a route sends when it starts a job
acceptedResponse(route) == IF route = "generate-content" THEN 201 ELSE 200

\* job j was started by a route and generateVideo is about to be invoked
AboutToGenerate(j) == job[j].pc = "started" /\ job[j].route # "none"

\* when generateVideo is about to be invoked the record has status processing
\* and the response is sent; a terminal update is only ever written by a job
\* whose response is sent
RespondedBeforeGenerating ==
  \A j \in Jobs :
    /\ AboutToGenerate(j) =>
         /\ job[j].response = acceptedResponse(job[j].route)
         /\ job[j].updates = <<>>
         /\ job[j].content.id \in DOMAIN contents
         /\ contents[job[j].content.id].status = "processing"
    /\ (job[j].route # "none" /\ job[j].outputPath # "") =>
         job[j].response = acceptedResponse(job[j].route)
    /\ job[j].updates # <<>> => job[j].response = acceptedResponse(job[j].route)

\* a response that is sent is never changed
ResponseKept == \A j \in Jobs : job[j].response # 0 => job'[j].response = job[j].response

\* C19: for both routes the record's status is set to processing and the
\* response is sent before generateVideo is invoked, no terminal status is
\* written to the record before that response, and a failure of the pipeline
\* never changes the response already sent.
C19_RespondsBeforeGenerating ==
  /\ []RespondedBeforeGenerating
  /\ [][ResponseKept]_vars

\* both routes have started a job, and the job of POST /generate-content has
\* failed and its error is recorded, its response still being the 201
C19_Witness ==
  \E j, k \in Jobs :
    /\ job[j].route = "generate-content"
    /\ job[j].pc = "done"
    /\ job[j].failedAt # ""
    /\ job[j].response = 201
    /\ job[j].updates # <<>>
    /\ job[k].route = "generate-video"
    /\ job[k].response = 200
    /\ job[k].outputPath # ""

\* the generation job j has been started and has not yet written its outcome
Running(j) == job[j].pc \in {"started", "rendering", "encoding", "resolved", "rejected"}

\* C20: at any time at most one generation job is in flight for a given
\* content record: a POST /contents/:id/generate-video for a record whose
\* job is still running does not start a second job on that record.
C20_OneJobPerRecord ==
  \A j, k \in Jobs :
    (j # k /\ Running(j) /\ Running(k)) => job[j].content.id # job[k].content.id

\* generateVideo of job j has failed, at whatever stage
Failed(j) == job[j].failedAt # ""

\* within a job the encoder is started at most once, no frame index is
\* rendered twice, and a job that failed is past its pipeline
OnePassPerJob ==
  \A j \in Jobs :
    /\ job[j].encoderRuns <= 1
    /\ \A a, b \in 1..Len(job[j].calls) :
         job[j].calls[a].frameNum = job[j].calls[b].frameNum => a = b
    /\ Failed(j) => job[j].pc \in {"rejected", "done"}
    /\ job[j].pc \in {"rendering", "encoding", "resolved"} =>
         job[j].frames = deriveFrames(job[j].content.scriptContent, job[j].content.title).frames
    /\ RenderedAll(j) => Len(job[j].calls) = Len(job[j].frames)

\* a job that failed makes no further render call and starts no encoder
NoStepAfterFailure ==
  \A j \in Jobs :
    Failed(j) =>
      /\ job'[j].calls = job[j].calls
      /\ job'[j].frameFiles = job[j].frameFiles
      /\ job'[j].encoderRuns = job[j].encoderRuns
      /\ job'[j].frames = job[j].frames

\* a job that POST /contents/:id/generate-video starts begins with nothing
\* derived or rendered, from the scriptContent stored for the record
StartsFromStoredScript ==
  \A j \in Jobs :
    (job[j].pc = "idle" /\ job'[j].pc = "started" /\ job'[j].route = "generate-video") =>
      /\ job'[j].content.id \in DOMAIN contents
      /\ job'[j].content.scriptContent = contents[job'[j].content.id].scriptContent
      /\ job'[j].frames = <<>>
      /\ job'[j].frameFiles = <<>>
      /\ job'[j].calls = <<>>
      /\ job'[j].encoderRuns = 0

\* when a job starts its encoder, every frame image its manifest names was
\* written by that job
EncodesOwnFrames ==
  \A j \in Jobs :
    (job[j].pc = "rendering" /\ job'[j].pc = "encoding") =>
      /\ files'[concatFilePath].job = j
      /\ \A i \in 1..Len(job'[j].frameFiles) :
           files'[job'[j].frameFiles[i].path].job = j

\* C21: within one job the encoder is invoked at most once and no frame is
\* rendered twice; after a render or encode failure the job makes no further
\* render or encode step; a later POST /contents/:id/generate-video re-runs
\* the whole pipeline from the record's stored scriptContent and reuses
\* nothing of the failed attempt.
C21_NoRetryWholeRerun ==
  /\ []OnePassPerJob
  /\ [][NoStepAfterFailure /\ StartsFromStoredScript /\ EncodesOwnFrames]_vars

\* a job failed, its record's script was edited, and a later generate-video
\* job on the same record has derived and rendered the edited script and
\* started its encoder
C21_Witness ==
  \E j, k \in Jobs :
    /\ Failed(j)
    /\ job[j].pc = "done"
    /\ job[k].route = "generate-video"
    /\ job[k].content.id = job[j].content.id
    /\ job[k].content.scriptContent = Str("Edited")
    /\ job[j].content.scriptContent # Str("Edited")
    /\ RenderedAll(k)
    /\ ~Failed(k)

\* every stored id was handed out by the counter, which is past it
IdsBelowCounter == \A i \in DOMAIN contents : i >= 1 /\ i < currentContentId

\* the counter never goes back, and a step that stores a new record stores
\* exactly one, under the counter's value, and advances the counter by one
IdsHandedOutInOrder ==
  /\ currentContentId' >= currentContentId
  /\ DOMAIN contents' \ DOMAIN contents # {} =>
       /\ DOMAIN contents' \ DOMAIN contents = {currentContentId}
       /\ currentContentId' = currentContentId + 1

\* C22: after any sequence of createContent, updateContent and deleteContent
\* calls, createContent assigns the ids 1, 2, 3, ... increasing by one; no id
\* is assigned to two records, also not after the record that held it was
\* deleted.
C22_IdsNeverReused ==
  /\ [](currentContentId >= 1 /\ IdsBelowCounter)
  /\ [][IdsHandedOutInOrder]_vars

\* records 1 and 2 were created and deleted, and the next record got id 3
C22_Witness ==
  /\ currentContentId = 4
  /\ DOMAIN contents = {3}

\* C23: when generation jobs overlap, the manifest and the frame images that
\* a job's encoder reads are exactly the ones that job wrote, and the cleanup
\* of a job that finished deletes no file that another job has rendered and
\* whose encoder still runs.
C23_EncoderReadsOwnFiles ==
  \A j \in Jobs :
    job[j].pc = "encoding" =>
      \A p \in scratchPaths(j) : p \in DOMAIN files /\ files[p].job = j

\* a route has started job j and the job has not yet written its terminal
\* update
RunningFor(j, id) ==
  /\ Running(j)
  /\ job[j].route # "none"
  /\ job[j].content.id = id

\* C24: from the acceptance of a generation request for a record until the
\* last job running for it has written its terminal update, the record's
\* status is never completed or error.
C24_NoTerminalStatusWhileRunning ==
  \A id \in DOMAIN contents :
    (\E j \in Jobs : RunningFor(j, id)) => contents[id].status \notin {"completed", "error"}

\* the stronger reading: while a job is running for a record, the record's
\* status is processing
StatusProcessingWhileRunning ==
  \A id \in DOMAIN contents :
    (\E j \in Jobs : RunningFor(j, id)) => contents[id].status = "processing"

\* job j was accepted by one of the two generation routes and has not
\* finished
Accepted(j) == job[j].route # "none" /\ job[j].pc \notin {"idle", "done"}

\* job j has finished: generateVideo settled and the route wrote its update
Terminated(j) == job[j].pc = "done"

\* a step in which an accepted job finishes leaves the job's record, when it
\* is stored, with status completed or error
TerminalStatusWritten ==
  \A j \in Jobs :
    (Accepted(j) /\ Terminated(j)' /\ job[j].content.id \in DOMAIN contents')
      => contents'[job[j].content.id].status \in {"completed", "error"}

\* record id is stored with status processing
InProcessing(id) == id \in DOMAIN contents /\ contents[id].status = "processing"

\* C25 as stated: every accepted generation job eventually terminates, its
\* record, when stored, then has status completed or error, and no record
\* stays in status processing forever.
C25_NoRecordProcessingForever ==
  /\ \A j \in Jobs : Accepted(j) ~> Terminated(j)
  /\ [][TerminalStatusWritten]_vars
  /\ \A id \in Ids : []<>(~InProcessing(id))

\* C25: provided the encoder signals end or error for every invocation, every
\* accepted generation job eventually terminates, and the step that ends it
\* leaves its record, when it is still stored, with status completed or
\* error.
C25_JobsTerminate ==
  /\ \A j \in Jobs : Accepted(j) ~> Terminated(j)
  /\ [][TerminalStatusWritten]_vars

\* two jobs on one record have both finished, one of them after the encoder
\* was started, and the record is stored with a terminal status
C25_Witness ==
  /\ \A j \in Jobs : Terminated(j) /\ job[j].updates # <<>>
  /\ \E j \in Jobs : job[j].encoderRuns > 0
  /\ \E id \in DOMAIN contents : contents[id].status \in {"completed", "error"}

\* the objects updateContent is called with: the PATCH bodies and the two
\* updates a job's route writes when generateVideo settles
UpdateBodies ==
  PatchBodies \cup {completedUpdate("public/videos/coding_demo_1700000000.mp4"),
                    errorUpdate("Canvas allocation failed")}

\* updateContent and deleteContent on id leave the store as it is and return
\* undefined and false; PATCH and DELETE answer 404
NoEffectOn(id) ==
  /\ deleteContent(contents, id) = contents
  /\ deleteContentResult(contents, id) = FALSE
  /\ deleteStatus(contents, id) = 404
  /\ \A b \in UpdateBodies :
       /\ updateContent(contents, id, b) = contents
       /\ updateContentResult(contents, id, b) = Undef
       /\ patchStatus(contents, id, b) = 404

\* a step of PATCH, DELETE or a job's final update for a record that is not
\* stored leaves the store unchanged: the record is not re-created
MissingRecordStaysMissing ==
  \A id \in Ids :
    (/\ id \notin DOMAIN contents
     /\ \/ \E b \in PatchBodies : PatchContent(id, b)
        \/ DeleteContent(id)
        \/ \E j \in Jobs : job[j].content.id = id /\ (Complete(j) \/ Fail(j)))
      => contents' = contents

\* C26: updateContent and deleteContent on an id that is not stored leave the
\* whole store unchanged and return undefined and false (404 at the routes);
\* so the final status update of a job whose record was deleted while it ran
\* does not re-create the record.
C26_MissingIdIsNoOp ==
  /\ [](\A id \in Ids : id \notin DOMAIN contents => NoEffectOn(id))
  /\ [][MissingRecordStaysMissing]_vars

\* a job has written its final update after its record was deleted, and the
\* record is not stored
C26_Witness ==
  \E j \in Jobs :
    /\ job[j].pc = "done"
    /\ job[j].updates # <<>>
    /\ job[j].content.id \notin DOMAIN contents
    /\ currentContentId > job[j].content.id

\* C27: every record stored in MemStorage has an id field equal to the key
\* it is stored under, so GET /contents/:id answers with a record whose id is
\* the requested id.
C27_IdEqualsKey ==
  \A id \in DOMAIN contents :
    contents[id].id = id /\ getContent(contents, id).id = id

\* the payload of job j has an array as its mainContent, and its blocks are
\* derived
MainContentArray(j) ==
  /\ job[j].content.scriptContent.t = "object"
  /\ Get(job[j].content.scriptContent, "mainContent").t = "array"
  /\ Derived(j)

\* the elements of the mainContent array of job j
Elements(j) == Get(job[j].content.scriptContent, "mainContent").items

IsElementBlock(f) == f.type \in {"section", "simple"}

\* the blocks of job j that stand for the elements of mainContent, in order
ElementBlocks(j) == SelectSeq(job[j].frames, IsElementBlock)

\* element e is an object that carries sectionTitle or script
CarriesSectionField(e) ==
  e.t = "object" /\ (Get(e, "sectionTitle") # Undef \/ Get(e, "script") # Undef)

\* the heading and the body of the section block of element e at 1-based
\* position i
HeadingOf(e, i) ==
  IF Truthy(Get(e, "sectionTitle")) THEN safeGetText(Get(e, "sectionTitle"))
  ELSE "Section " \o ToString(i)
BodyOf(e) ==
  IF Truthy(Get(e, "script")) THEN safeGetText(Get(e, "script")) ELSE safeGetText(e)

SectionText(heading, body) == "<strong>" \o heading \o "</strong><br/><br/>" \o body

\* C28 as stated: an element of a mainContent array yields a section block
\* only when it is an object that carries sectionTitle or script, and every
\* other element (an object with neither field included) yields a simple
\* block holding its resolved text; a section without sectionTitle is headed
\* "Section i".
C28_SectionOnlyWithFields ==
  \A j \in Jobs :
    MainContentArray(j) =>
      /\ Len(ElementBlocks(j)) = Len(Elements(j))
      /\ \A i \in 1..Len(Elements(j)) :
           LET e == Elements(j)[i]
               b == ElementBlocks(j)[i]
           IN IF CarriesSectionField(e)
              THEN /\ b.type = "section"
                   /\ Get(e, "sectionTitle") = Undef
                        => b.text = SectionText("Section " \o ToString(i), BodyOf(e))
              ELSE b.type = "simple" /\ b.text = safeGetText(e)

\* C28: every element of a mainContent array that is an object (null
\* excluded) yields a section block, whether or not it carries sectionTitle
\* or script: its heading is the resolved sectionTitle, or "Section i" (i the
\* 1-based position) when sectionTitle is absent or empty, and its body is the
\* resolved script, or the resolved text of the whole element when script is
\* absent or empty.  Every other element (string, number, null) yields a
\* simple block holding its resolved text.
C28_SectionForEveryObject ==
  \A j \in Jobs :
    MainContentArray(j) =>
      /\ Len(ElementBlocks(j)) = Len(Elements(j))
      /\ \A i \in 1..Len(Elements(j)) :
           LET e == Elements(j)[i]
               b == ElementBlocks(j)[i]
           IN IF e.t \in {"object", "array"}
              THEN /\ b.type = "section"
                   /\ b.text = SectionText(HeadingOf(e, i), BodyOf(e))
                   /\ ~Truthy(Get(e, "sectionTitle"))
                        => b.text = SectionText("Section " \o ToString(i), BodyOf(e))
              ELSE /\ b.type = "simple"
                   /\ b.text = safeGetText(e)
                   /\ e = Num(7) => b.text = "7"
                   /\ e = Null => b.text = ""

\* a mainContent of a number followed by an object with neither sectionTitle
\* nor script has given a simple block and a section block headed "Section 2"
C28_Witness ==
  \E j \in Jobs :
    /\ MainContentArray(j)
    /\ Len(Elements(j)) = 2
    /\ Elements(j)[1] = Num(7)
    /\ ~CarriesSectionField(Elements(j)[2]) /\ Elements(j)[2].t = "object"
    /\ ElementBlocks(j)[1].type = "simple"
    /\ ElementBlocks(j)[1].text = "7"
    /\ ElementBlocks(j)[2].type = "section"
    /\ ElementBlocks(j)[2].text = "<strong>Section 2</strong><br/><br/>{}"

\* the payload of job j has a mainContent that is one text-like value (not an
\* array, and not a value that the test `if (mainContent)` skips), and its
\* blocks are derived
MainContentText(j) ==
  /\ job[j].content.scriptContent.t = "object"
  /\ Truthy(Get(job[j].content.scriptContent, "mainContent"))
  /\ Get(job[j].content.scriptContent, "mainContent").t # "array"
  /\ Derived(j)

\* a field of an object, as a string
FieldText(f) == IF f.t = "string" THEN f.s ELSE Stringify(f, 0, "")

\* text resolution as stated: a present text or script field is taken, and
\* whatever is neither a string nor an object is stringified
ResolvedTextAsStated(v) ==
  CASE v.t = "string" -> v.s
    [] v.t \in {"object", "array"} ->
         IF Get(v, "text") # Undef THEN FieldText(Get(v, "text"))
         ELSE IF Get(v, "script") # Undef THEN FieldText(Get(v, "script"))
         ELSE Stringify(v, 2, "")
    [] OTHER -> ToStr(v)

\* text resolution: a text or script field counts only when it is truthy (an
\* empty string is passed over), and null and undefined give the empty string
ResolvedText(v) ==
  CASE v.t = "string" -> v.s
    [] v.t \in {"null", "undefined"} -> ""
    [] v.t \in {"object", "array"} ->
         IF Truthy(Get(v, "text")) THEN FieldText(Get(v, "text"))
         ELSE IF Truthy(Get(v, "script")) THEN FieldText(Get(v, "script"))
         ELSE Stringify(v, 2, "")
    [] OTHER -> ToStr(v)

\* text-like values and their resolved texts
ResolvedTextCases ==
  {<<Str("Main"), "Main">>,
   <<Obj(<<P("text", Str("T")), P("script", Str("S"))>>), "T">>,
   <<Obj(<<P("text", Str("")), P("script", Str("Spoken"))>>), "Spoken">>,
   <<Obj(<<P("text", Num(5))>>), "5">>,
   <<Obj(<<P("script", Arr(<<Str("a"), Num(1)>>))>>), "[\"a\",1]">>,
   <<Obj(<<P("text", Str(""))>>), "{\n  \"text\": \"\"\n}">>,
   <<Obj(<<P("note", Str("n"))>>), "{\n  \"note\": \"n\"\n}">>,
   <<Num(42), "42">>, <<Bool(TRUE), "true">>, <<Null, "">>}

\* the texts of the blocks of job j that hold one resolved value: the content
\* block of a text-like mainContent, and the simple blocks of the elements of
\* a mainContent array that are not objects
ResolvedAs(j, resolve(_)) ==
  /\ MainContentText(j) =>
       /\ job[j].failedAt # "frames"
       /\ BlocksOfType(j, "content") # {}
       /\ \A k \in BlocksOfType(j, "content") :
            job[j].frames[k].text = resolve(Get(job[j].content.scriptContent, "mainContent"))
  /\ MainContentArray(j) =>
       /\ job[j].failedAt # "frames"
       /\ \A i \in 1..Len(Elements(j)) :
            Elements(j)[i].t \notin {"object", "array"} =>
              ElementBlocks(j)[i].text = resolve(Elements(j)[i])

\* C29 as stated: text resolution returns the value itself when it is a
\* string; for an object its text field when present, otherwise its script
\* field when present (stringified when not a string), otherwise the
\* pretty-printed object; and the stringified value for every other type; it
\* never throws.
C29_TextResolutionAsStated ==
  \A j \in Jobs : ResolvedAs(j, ResolvedTextAsStated)

\* C29: text resolution returns the value itself when it is a string; the
\* empty string for null and undefined; for an object its text field when
\* that is truthy, otherwise its script field when that is truthy (the field
\* stringified when it is not a string), otherwise the pretty-printed object;
\* and the stringified value for numbers and booleans.  It returns a string
\* and never throws.
C29_TextResolution ==
  /\ \A c \in ResolvedTextCases : ResolvedText(c[1]) = c[2]
  /\ \A j \in Jobs : ResolvedAs(j, ResolvedText)

\* an object whose text is the empty string and whose script is "Spoken" has
\* been resolved to "Spoken"
C29_Witness ==
  \E j \in Jobs :
    /\ MainContentText(j)
    /\ Get(job[j].content.scriptContent, "mainContent")
         = Obj(<<P("text", Str("")), P("script", Str("Spoken"))>>)
    /\ \E k \in BlocksOfType(j, "content") : job[j].frames[k].text = "Spoken"

\* the fillText calls of the body text of job j's frame
BodyDraws(j) == job[j].canvas.draws

\* the positions in BodyDraws(j) of the ellipsis marker
MarkerAt(j) == {k \in 1..Len(BodyDraws(j)) : BodyDraws(j)[k].text = ellipsis}

\* every body line and marker is drawn above the lower edge of the frame
BodyWithinFrame == \A j \in Jobs : \A k \in 1..Len(BodyDraws(j)) : BodyDraws(j)[k].y < HEIGHT

\* once the next line's position has passed the bottom limit, the marker is
\* drawn at that position
MarkerAtOverflow ==
  \A j \in Jobs :
    job[j].canvas.textY > HEIGHT - bottomMargin
      => \E k \in MarkerAt(j) : BodyDraws(j)[k].y = job[j].canvas.textY

\* C30: once the next line's position passes the bottom limit of the content
\* area (HEIGHT - 100) the renderer draws the ellipsis marker and draws no
\* further body text for that frame, nothing after or on top of the marker,
\* and no body line or marker is drawn at a y position >= HEIGHT.
C30_TruncatesAtMarker ==
  /\ MarkerAtOverflow
  /\ \A j \in Jobs : \A k \in MarkerAt(j) :
       /\ k = Len(BodyDraws(j))
       /\ \A m \in 1..Len(BodyDraws(j)) : m # k => BodyDraws(j)[m].y # BodyDraws(j)[k].y
  /\ BodyWithinFrame

====
